---- MODULE Spec2Model ----
(***************************************************************************)
(* Sourcify-grabber acquisition pipeline: the `fetch` command              *)
(* (orchestrator), the archive manager's provenance tracking, the Sourcify *)
(* client's metadata scan and the HTTP client's retry / cache logic.       *)
(*                                                                         *)
(* Several state machines share the module's variables:                    *)
(*   Spec         the fetch command run over the input addresses           *)
(*   FairSpec     Spec with weak fairness on the run loop                  *)
(*   SpecArchive  Spec started on an archive that already holds records    *)
(*   SpecMeta     SourcefyClient.fetchMetadata applied to bounded inputs   *)
(*   SpecRetry    HttpClient.request, one attempt per step: every client   *)
(*                configuration and every failure, on one URL              *)
(*   SpecHttp     HttpClient.request with its cache: every URL and request *)
(*                option, time passing, one client configuration           *)
(*   SpecVerify   ContractVerifier.verifyContract applied to bounded       *)
(*                inputs                                                   *)
(*   SpecChecksum generateChecksums / verifyChecksums over a directory     *)
(*                whose files change                                       *)
(*   SpecManifest verifyChecksums applied to every directory and manifest  *)
(*   SpecCommands Spec together with the verify command                    *)
(*   SpecSources  SourcefyClient.fetchAllSources, one file settling per    *)
(*                step                                                     *)
(*   SpecExplorer ExplorerClient.normalizeExplorerResponse applied to      *)
(*                bounded explorer results                                 *)
(*   SpecCache    HttpClient.request on one URL whose cache file is        *)
(*                deleted, torn or rewritten while the call runs           *)
(*   FairRetry    SpecRetry with weak fairness on the attempt step         *)
(*   SpecSave     HttpClient.request on a cache directory whose writes can *)
(*                fail                                                     *)
(*   SpecPersist  ArchiveManager.persistContract, one write per step, with *)
(*                failing writes and a kill at any statement               *)
(*   SpecRegistry RegistryManager: initChain, addContract, removeContract, *)
(*                getContract and listContracts on one chain               *)
(*   SpecRegistrySets  the registry with switchContractSet                 *)
(*   SpecCliFetch the registry-based fetch command on one contract         *)
(*                directory, and validateChecksums                         *)
(* Time is counted in hours (clock); retry delays in milliseconds.         *)
(***************************************************************************)
EXTENDS Integers, Sequences, FiniteSets, TLC

(* ------------------------------ bounds --------------------------------- *)

\* Number of clock advances in one behaviour.
MaxTicks == 2

\* Number of fetches of one contract by the registry-based fetch command.
MaxFetches == 2

(* --------------------------- program constants ------------------------- *)

\* 24 * 60 * 60 * 1000 ms, in hours
StaleThresholdHours == 24

\* the input addresses of the chain, in addresses.txt order
AddressList == <<"a1", "a2">>
Addresses == {AddressList[i] : i \in 1..Len(AddressList)}

\* new SourcefyClient(): baseUrls defaults to one repository
DefaultBaseUrls == <<"repo1">>

Min(a, b) == IF a <= b THEN a ELSE b

(* ------------------------------ variables ------------------------------ *)

VARIABLES
  clock,            \* Date.now(), hours
  ticks,            \* clock advances so far
  \* --- archive and configuration
  explorerApiBase,  \* chainConfig.explorerApiBase is set
  primaryHealthy,   \* the primary source answers every lookup successfully
  prov,             \* provenance.json of each contract
  metaFile,         \* metadata.json of each contract
  hashFile,         \* bytecode/hashes.json of each contract
  \* --- the fetch command
  stage,            \* where the command is
  opts,             \* options of the run
  idx,              \* index into AddressList of the address being processed
                    \* (or, between two addresses, of the one just finished)
  check,            \* provenanceCheck of the address being processed
  contractData,     \* contractData of the address being processed
  primaryLookups,   \* metadata lookups issued for that address, with answers
  explorerCalls,    \* explorer.fetchContractSource calls for that address
  outcome,          \* per address, how the run left it
  totalProcessed, totalSuccessful, totalFailed,
  exitCode,         \* process exit status of the last run
  \* --- one fetchMetadata call (SpecMeta)
  mCall,            \* its client and arguments
  mResult,          \* what it returned or threw, and the lookups it issued
  \* --- the HTTP client (SpecHttp)
  httpConfig,       \* options given to the HttpClient constructor
  cache,            \* cache file of each URL
  hStage,           \* "idle", "attempting" (in the retry loop), "done"
  hReq,             \* method, url and options of the request() call
  hAttempt,         \* the loop variable attempt
  hRequests,        \* this.client.request calls issued by the call
  hAnswer,          \* response or error of the last attempt
  hDelays,          \* the sleeps of the call, each with the status before it
  hResult,          \* what the call returned or threw
  hPrev,            \* summary of the previous completed call
  \* --- one verifyContract call (SpecVerify)
  vCall,            \* its arguments and what the RPC answers
  vResult,          \* the verification result it returned
  \* --- a contract directory and its checksum manifest (SpecChecksum)
  kDir,             \* content of each path of the directory
  kBase,            \* the directory as it was when the manifest was generated
  kManifest,        \* the expected checksums
  kResult,          \* what the last verifyChecksums call returned
  \* --- one fetchAllSources call (SpecSources)
  sFiles,           \* per manifest path, its fetch and the callback's promise
  sSources,         \* the sources object the callbacks fill
  sResult,          \* what the call returned or threw
  \* --- one normalizeExplorerResponse call (SpecExplorer)
  xCall,            \* the explorer result it was given
  xResult,          \* what it returned or threw
  \* --- one persistContract call (SpecPersist)
  pData,            \* the artifacts contractData holds, and the invalid ones
  pDir,             \* per artifact, the state of its file in the directory
  pPos,             \* the statement the call is at (an index into
                    \* PersistOrder) and whether it runs or how it ended
  \* --- the registry of one chain (SpecRegistry)
  registry,         \* registry.json: whether it exists, its dates and entries
  rLast,            \* the last RegistryManager call and what it returned
  \* --- a contract directory of the registry-based fetch (SpecCliFetch)
  gDir,             \* content of each file of the directory
  gFetches,         \* fetches of the contract so far
  gResult           \* what the last validateChecksums call returned

archiveVars == <<prov, metaFile, hashFile>>
runVars == <<stage, opts, idx, check, contractData, primaryLookups,
             explorerCalls, outcome, totalProcessed, totalSuccessful,
             totalFailed, exitCode>>
orchVars == <<explorerApiBase, primaryHealthy, archiveVars, runVars>>
metaVars == <<mCall, mResult>>
httpCallVars == <<hStage, hReq, hAttempt, hRequests, hAnswer, hDelays,
                 hResult, hPrev>>
httpVars == <<httpConfig, cache, httpCallVars>>
verifyVars == <<vCall, vResult>>
checksumVars == <<kDir, kBase, kManifest, kResult>>
sourcesVars == <<sFiles, sSources, sResult>>
explorerVars == <<xCall, xResult>>
libVars == <<verifyVars, checksumVars, sourcesVars, explorerVars>>
persistVars == <<pData, pDir, pPos>>
registryVars == <<registry, rLast>>
cliFetchVars == <<gDir, gFetches, gResult>>
toolVars == <<persistVars, registryVars, cliFetchVars>>
vars == <<clock, ticks, orchVars, metaVars, httpVars, libVars, toolVars>>

(* ----------------------- archive.js: provenance ------------------------ *)

NoProvenance == [kind |-> "absent"]
\* a provenance.json that cannot be parsed or fails provenanceSchema
\* (a torn write, a hand edit)
CorruptProvenance == [kind |-> "corrupt"]

HasRecord(p) == p.kind = "record"

\* validateData(provenance, validateProvenance, 'provenance')
ValidateProvenance(p) == p.kind = "record"

\* (mutant) staleness measured against firstSeenAt
IsStaleSinceFirstSeen(p, now) == now - p.firstSeenAt > StaleThresholdHours

\* Date.now() - lastUpdated.getTime() > staleThreshold
IsStale(p, now) == now - p.lastUpdatedAt > StaleThresholdHours

\* (mutant) --force does not prevent the skip
ShouldSkipDespiteForce(p, now, force) == ~IsStale(p, now)

\* shouldSkip: !isStale && !options.force
ShouldSkip(p, now, force) == ~IsStale(p, now) /\ ~force

\* ArchiveManager.checkProvenance: the result, or threw = TRUE when the read
\* fails with anything but ENOENT (JSON.parse, schema validation)
CheckProvenance(p, now, force) ==
  IF p.kind = "absent"
    THEN [threw |-> FALSE, exists |-> FALSE, provenance |-> NoProvenance,
          isStale |-> TRUE, shouldSkip |-> FALSE]
  ELSE IF ~ValidateProvenance(p)
    THEN [threw |-> TRUE, exists |-> FALSE, provenance |-> NoProvenance,
          isStale |-> TRUE, shouldSkip |-> FALSE]
  ELSE [threw |-> FALSE, exists |-> TRUE, provenance |-> p,
        isStale |-> IsStale(p, now),
        shouldSkip |-> ShouldSkip(p, now, force)]

NoCheck == [threw |-> FALSE, exists |-> FALSE, provenance |-> NoProvenance,
            isStale |-> FALSE, shouldSkip |-> FALSE]

\* (mutant) every fetch restarts firstSeenAt
CreateProvenanceFresh(sourcesUsed, prior, now) ==
  [kind |-> "record", firstSeenAt |-> now, lastUpdatedAt |-> now,
   sourcesUsed |-> sourcesUsed, orphaned |-> FALSE]

\* (mutant) a re-fetch keeps the old lastUpdatedAt
CreateProvenanceOldUpdate(sourcesUsed, prior, now) ==
  [kind |-> "record", firstSeenAt |-> now,
   lastUpdatedAt |-> IF HasRecord(prior) THEN prior.lastUpdatedAt ELSE now,
   sourcesUsed |-> sourcesUsed, orphaned |-> FALSE]

\* ArchiveManager.createProvenance({sourcesUsed, firstSeenAt}); prior is
\* provenanceCheck.provenance (firstSeenAt: prior?.firstSeenAt || now)
CreateProvenance(sourcesUsed, prior, now) ==
  [kind |-> "record",
   firstSeenAt |-> IF HasRecord(prior) THEN prior.firstSeenAt ELSE now,
   lastUpdatedAt |-> now,
   sourcesUsed |-> sourcesUsed,
   orphaned |-> FALSE]

(* ----------------------- sourcify.js: fetchMetadata -------------------- *)

\* what one this.http.get(url) of a lookup ends with: the payload, a 404, another
\* HTTP status error, or no response at all
LookupOutcomes == {"ok", "404", "error", "network"}

\* (mutant) only the full matches are looked up
FullPairsOnly(baseUrls) ==
  [i \in 1..Len(baseUrls) |-> [matchType |-> "full", baseUrl |-> baseUrls[i]]]

\* for (matchType of ['full','partial']) for (baseUrl of this.baseUrls)
OrderedPairs(baseUrls) ==
  [i \in 1..(2 * Len(baseUrls)) |->
     IF i <= Len(baseUrls)
       THEN [matchType |-> "full", baseUrl |-> baseUrls[i]]
       ELSE [matchType |-> "partial", baseUrl |-> baseUrls[i - Len(baseUrls)]]]

\* one issued lookup and what it answered
Lookup(pair, answer) ==
  [matchType |-> pair.matchType, baseUrl |-> pair.baseUrl, outcome |-> answer]

RECURSIVE ScanStopsOnError(_, _, _, _, _)
\* (mutant) a failure other than a 404 ends the scan
ScanStopsOnError(pairs, resp, i, lastError, issued) ==
  IF i > Len(pairs) \/ lastError \in {"error", "network"}
    THEN [ok |-> FALSE, matchType |-> "undefined", sourceUrl |-> "undefined",
          lastError |-> lastError, lookups |-> issued]
  ELSE IF resp[i] = "ok"
    THEN [ok |-> TRUE, matchType |-> pairs[i].matchType,
          sourceUrl |-> pairs[i].baseUrl,
          lastError |-> lastError,
          lookups |-> Append(issued, Lookup(pairs[i], resp[i]))]
  ELSE ScanStopsOnError(pairs, resp, i + 1, resp[i],
                        Append(issued, Lookup(pairs[i], resp[i])))

RECURSIVE Scan(_, _, _, _, _)
\* the nested loops from pair i on: every failure sets lastError and goes on,
\* the first success returns
Scan(pairs, resp, i, lastError, issued) ==
  IF i > Len(pairs)
    THEN [ok |-> FALSE, matchType |-> "undefined", sourceUrl |-> "undefined",
          lastError |-> lastError, lookups |-> issued]
  ELSE IF resp[i] = "ok"
    THEN [ok |-> TRUE, matchType |-> pairs[i].matchType,
          sourceUrl |-> pairs[i].baseUrl,
          lastError |-> lastError,
          lookups |-> Append(issued, Lookup(pairs[i], resp[i]))]
  ELSE Scan(pairs, resp, i + 1, resp[i],
            Append(issued, Lookup(pairs[i], resp[i])))

\* SourcefyClient.fetchMetadata(chainId, address); resp[i] is what the i-th
\* pair's lookup would answer
FetchMetadata(addrValid, baseUrls, resp) ==
  IF ~addrValid
    THEN [ok |-> FALSE, matchType |-> "undefined", sourceUrl |-> "undefined",
          lastError |-> "invalid address", lookups |-> <<>>]
    ELSE Scan(OrderedPairs(baseUrls), resp, 1, "undefined", <<>>)

(* ----------------------- verify.js: ContractVerifier ------------------- *)

\* A bytecode value: null / undefined, or a hex string with or without the 0x
\* prefix (digits "" with the prefix is '0x', without it the empty string).
Bytecode(kind, prefix, digits) == [kind |-> kind, prefix |-> prefix, digits |-> digits]
NullCode == Bytecode("null", FALSE, "")
EmptyCode == Bytecode("hex", FALSE, "")
OnlyPrefix == Bytecode("hex", TRUE, "")

\* !bytecode
Falsy(b) == b.kind = "null" \/ b = EmptyCode

NoHash == [kind |-> "null", digest |-> ""]

\* ContractVerifier.calculateBytecodeHash: null for a missing, empty or '0x'
\* bytecode, else the digest of the bytes after the 0x prefix
CalculateBytecodeHash(b) ==
  IF Falsy(b) \/ b = OnlyPrefix
    THEN NoHash
    ELSE [kind |-> "hash", digest |-> b.digits]

\* what the eth_getCode call ends with: a result, or a failure (HTTP error or
\* response.error)
RpcResult(b) == [kind |-> "result", code |-> b]
RpcFailure == [kind |-> "fails", code |-> NullCode]

\* ContractVerifier.fetchDeployedBytecode(rpcUrl, address)
FetchDeployedBytecode(rpcUrl, rpc) ==
  IF ~rpcUrl \/ rpc.kind = "fails"
    THEN [threw |-> TRUE, bytecode |-> NullCode]
  ELSE IF Falsy(rpc.code) \/ rpc.code = OnlyPrefix
    THEN [threw |-> FALSE, bytecode |-> NullCode]
  ELSE [threw |-> FALSE, bytecode |-> rpc.code]

NoVerification ==
  [verified |-> FALSE, onChainBytecode |-> NullCode, onChainHash |-> NoHash,
   metadataHash |-> NoHash, hashMatch |-> FALSE, errors |-> {}, warnings |-> {}]

\* (mutant) both hashes missing counts as a match
HashesAgreeOrAbsent(onChainHash, metadataHash) == onChainHash = metadataHash

\* if (result.onChainHash && result.metadataHash)
\*   result.hashMatch = result.onChainHash === result.metadataHash
HashesAgree(onChainHash, metadataHash) ==
  /\ onChainHash.kind = "hash"
  /\ metadataHash.kind = "hash"
  /\ onChainHash = metadataHash

\* ContractVerifier.verifyContract(chainConfig, address, metadata): rpcUrl is
\* whether chainConfig.rpcUrl is set, rpc what eth_getCode answers, metaCode
\* is metadata.output?.deployedBytecode?.object, sourcesOnly is
\* metadata.compilationTarget && metadata.sources
VerifyContract(rpcUrl, rpc, metaCode, sourcesOnly) ==
  LET fetched == FetchDeployedBytecode(rpcUrl, rpc)
      onChainBytecode == IF rpcUrl THEN fetched.bytecode ELSE NullCode
      onChainHash == IF rpcUrl /\ onChainBytecode.kind # "null"
                       THEN CalculateBytecodeHash(onChainBytecode)
                       ELSE NoHash
      metadataHash == IF ~Falsy(metaCode)
                        THEN CalculateBytecodeHash(metaCode)
                        ELSE NoHash
      both == onChainHash.kind = "hash" /\ metadataHash.kind = "hash"
      hashMatch == HashesAgree(onChainHash, metadataHash)
  IN IF rpcUrl /\ fetched.threw
       THEN [NoVerification EXCEPT !.errors = {"verification failed"}]
       ELSE [verified |-> hashMatch,
             onChainBytecode |-> onChainBytecode,
             onChainHash |-> onChainHash,
             metadataHash |-> metadataHash,
             hashMatch |-> hashMatch,
             errors |-> IF both /\ ~hashMatch THEN {"hash mismatch"} ELSE {},
             warnings |->
               (IF rpcUrl /\ onChainBytecode.kind = "null"
                  THEN {"no bytecode on-chain"} ELSE {})
               \cup (IF ~rpcUrl THEN {"no rpc url"} ELSE {})
               \cup (IF Falsy(metaCode) /\ sourcesOnly
                       THEN {"no deployed bytecode in metadata"} ELSE {})
               \cup (IF ~both THEN {"cannot verify"} ELSE {})]

\* JSON type of a hash in hashes.json
HashTag(h) == IF h.kind = "hash" THEN "string" ELSE "null"

NoHashes ==
  [kind |-> "none", onChainDeployedHash |-> "undefined",
   metadataDeployedHash |-> "undefined", match |-> FALSE]

\* ContractVerifier.createHashesRecord(verificationResult, metadata)
CreateHashesRecord(res) ==
  [kind |-> "record",
   onChainDeployedHash |-> HashTag(res.onChainHash),
   metadataDeployedHash |-> HashTag(res.metadataHash),
   match |-> res.hashMatch]

(* ------------------- cli.js / schemas.js: metadata --------------------- *)

\* A metadata document is modelled by the JSON type of each field that
\* metadataSchema declares ("undefined": the property is absent or undefined).
NoMetadata ==
  [kind |-> "absent", name |-> "undefined", chainId |-> "undefined",
   address |-> "undefined", compilerVersion |-> "undefined",
   sourcifyMatchType |-> "undefined", sourcifyUrl |-> "undefined",
   sourcifyCommit |-> "undefined", explorerVerified |-> "undefined",
   fetchedAt |-> "undefined", deployedCode |-> NullCode]

\* contractData.metadata built from a Sourcify result; nameTag is the type of
\* metadata.settings?.contractName, code is output.deployedBytecode.object
SourcifyMetadata(res, nameTag, code) ==
  [kind |-> "metadata", name |-> nameTag, chainId |-> "number",
   address |-> "string", compilerVersion |-> "string",
   sourcifyMatchType |-> res.matchType, sourcifyUrl |-> "string",
   sourcifyCommit |-> "null", explorerVerified |-> "undefined",
   fetchedAt |-> "string", deployedCode |-> code]

\* contractData.metadata built from an explorer result (its output holds the
\* abi only)
ExplorerMetadata ==
  [kind |-> "metadata", name |-> "string", chainId |-> "number",
   address |-> "string", compilerVersion |-> "string",
   sourcifyMatchType |-> "undefined", sourcifyUrl |-> "undefined",
   sourcifyCommit |-> "undefined", explorerVerified |-> "boolean",
   fetchedAt |-> "string", deployedCode |-> NullCode]

\* Ajv: a declared property is checked only when it is not undefined
TypeOk(tag, type) == tag = "undefined" \/ tag = type

\* validateMetadata (metadataSchema)
ValidateMetadata(m) ==
  /\ m.chainId = "number"
  /\ m.address = "string"
  /\ TypeOk(m.name, "string")
  /\ m.compilerVersion = "string"
  /\ m.sourcifyMatchType \in {"undefined", "full", "partial", "none"}
  /\ TypeOk(m.sourcifyUrl, "string")
  /\ TypeOk(m.sourcifyCommit, "string")
  /\ TypeOk(m.explorerVerified, "boolean")
  /\ TypeOk(m.fetchedAt, "string")

(* --------------------------- cli.js: fetch ----------------------------- *)

\* validateHashes (hashesSchema)
ValidateHashes(h) ==
  /\ TypeOk(h.onChainDeployedHash, "string")
  /\ TypeOk(h.metadataDeployedHash, "string")

NoContractData ==
  [kind |-> "none", dataSource |-> "undefined", metadata |-> NoMetadata,
   sources |-> "none", provenance |-> NoProvenance, hashes |-> NoHashes]

TickHours == {1, 24}

\* time passes
Tick(d) ==
  /\ stage = "IDLE"
  /\ ticks < MaxTicks
  /\ clock' = clock + d
  /\ ticks' = ticks + 1
  /\ UNCHANGED <<orchVars, metaVars, httpVars, libVars, toolVars>>

\* the primary source recovers, for good
Heal ==
  /\ stage = "IDLE"
  /\ ~primaryHealthy
  /\ primaryHealthy' = TRUE
  /\ UNCHANGED <<clock, ticks, explorerApiBase, archiveVars, runVars>>
  /\ UNCHANGED <<metaVars, httpVars, libVars, toolVars>>

\* (mutant) markOrphaned removes the provenance record
MarkOrphanedRemoves(a) ==
  /\ stage = "IDLE"
  /\ prov' = [prov EXCEPT ![a] = NoProvenance]
  /\ UNCHANGED <<clock, ticks, explorerApiBase, primaryHealthy, metaFile, hashFile,
                 runVars>>
  /\ UNCHANGED <<metaVars, httpVars, libVars, toolVars>>

\* ArchiveManager.markOrphaned(chainName, address): a read or parse failure is
\* logged and swallowed
MarkOrphaned(a) ==
  /\ stage = "IDLE"
  /\ prov' = [prov EXCEPT ![a] =
                IF HasRecord(prov[a])
                  THEN [prov[a] EXCEPT !.orphaned = TRUE, !.lastUpdatedAt = clock]
                  ELSE prov[a]]
  /\ UNCHANGED <<clock, ticks, explorerApiBase, primaryHealthy, metaFile, hashFile,
                 runVars>>
  /\ UNCHANGED <<metaVars, httpVars, libVars, toolVars>>

Cur == AddressList[idx]

\* the fetch action starts: counters at 0, options from the command line;
\* o.selected is addresses.length after the --address / --from / --to / --limit
\* filtering, the run takes that many addresses from the head of the list
StartRun(o) ==
  /\ stage = "IDLE"
  /\ stage' = "PENDING"
  /\ opts' = o
  /\ exitCode' = "none"
  /\ UNCHANGED <<clock, ticks, explorerApiBase, primaryHealthy, archiveVars,
                 idx, check, contractData, primaryLookups, explorerCalls,
                 outcome, totalProcessed, totalSuccessful, totalFailed>>
  /\ UNCHANGED <<metaVars, httpVars, libVars, toolVars>>

\* (mutant) every failure is rethrown to the command's catch
FailContractAborts(a) ==
  /\ totalFailed' = totalFailed + 1
  /\ outcome' = [outcome EXCEPT ![a] = "failed"]
  /\ stage' = "ABORTING"
  /\ UNCHANGED exitCode

\* (mutant) a failure is not counted
FailContractUncounted(a) ==
  /\ outcome' = [outcome EXCEPT ![a] = "failed"]
  /\ stage' = IF opts.strict THEN "ABORTING" ELSE "PENDING"
  /\ UNCHANGED <<totalFailed, exitCode>>

\* (mutant) no failure is rethrown
FailContractContinues(a) ==
  /\ totalFailed' = totalFailed + 1
  /\ outcome' = [outcome EXCEPT ![a] = "failed"]
  /\ stage' = "PENDING"
  /\ UNCHANGED exitCode

\* catch (error) of the per-address try, for address a: count it, and in
\* strict mode rethrow to the command's catch
FailContract(a) ==
  /\ totalFailed' = totalFailed + 1
  /\ outcome' = [outcome EXCEPT ![a] = "failed"]
  /\ stage' = IF opts.strict THEN "ABORTING" ELSE "PENDING"
  /\ UNCHANGED exitCode

\* no command line: the options of a process that is not running
NoOptions ==
  [force |-> FALSE, strict |-> FALSE, dryRun |-> FALSE,
   verifyBytecode |-> FALSE, selected |-> Len(AddressList)]

\* process.exit(code): the command's memory is gone, the archive stays
ProcessExit(code) ==
  /\ stage' = "IDLE"
  /\ exitCode' = code
  /\ opts' = NoOptions
  /\ idx' = 0
  /\ check' = NoCheck
  /\ contractData' = NoContractData
  /\ primaryLookups' = <<>>
  /\ explorerCalls' = 0
  /\ outcome' = [a \in Addresses |-> "pending"]
  /\ totalProcessed' = 0
  /\ totalSuccessful' = 0
  /\ totalFailed' = 0
  /\ UNCHANGED <<clock, ticks, explorerApiBase, primaryHealthy, archiveVars>>
  /\ UNCHANGED <<metaVars, httpVars, libVars, toolVars>>

\* the loop takes the next address: totalProcessed++, the dry-run continue,
\* checkProvenance and the skip
CheckStale ==
  /\ stage = "PENDING"
  /\ idx < opts.selected
  /\ idx' = idx + 1
  /\ totalProcessed' = totalProcessed + 1
  /\ contractData' = NoContractData
  /\ primaryLookups' = <<>>
  /\ explorerCalls' = 0
  /\ LET a == AddressList[idx + 1]
         r == CheckProvenance(prov[a], clock, opts.force)
     IN IF opts.dryRun
          THEN /\ outcome' = [outcome EXCEPT ![a] = "dry"]
               /\ check' = NoCheck
               /\ UNCHANGED <<stage, totalFailed, exitCode>>
        ELSE IF r.threw
          THEN /\ check' = NoCheck
               /\ FailContract(a)
        ELSE IF r.shouldSkip
          THEN /\ outcome' = [outcome EXCEPT ![a] = "skipped"]
               /\ check' = r
               /\ UNCHANGED <<stage, totalFailed, exitCode>>
        ELSE /\ check' = r
             /\ stage' = "FETCHING_PRIMARY"
             /\ UNCHANGED <<outcome, totalFailed, exitCode>>
  /\ UNCHANGED <<clock, ticks, explorerApiBase, primaryHealthy, archiveVars,
                 opts, totalSuccessful>>
  /\ UNCHANGED <<metaVars, httpVars, libVars, toolVars>>

\* (mutant) the explorer fallback is never taken
ExplorerFallbackNever == FALSE

\* if (chainConfig.explorerApiBase) in the catch of the Sourcify failure
ExplorerFallback == explorerApiBase

\* try { sourcify.fetchMetadata ... contractData = {...} } catch (sourcifyError)
\* up to the explorer call; resp is what each lookup would answer, payload
\* describes the metadata document and whether fetchAllSources got every
\* source file ("all") or dropped the files whose fetch failed ("partial")
FetchPrimary(resp, payload) ==
  /\ stage = "FETCHING_PRIMARY"
  /\ primaryHealthy => \A i \in DOMAIN resp : resp[i] = "ok"
  /\ LET res == FetchMetadata(TRUE, DefaultBaseUrls, resp)
     IN /\ primaryLookups' = res.lookups
        /\ IF res.ok
             THEN /\ contractData' =
                       [kind |-> "data", dataSource |-> "sourcify",
                        metadata |-> SourcifyMetadata(res, payload.name,
                                                      payload.code),
                        sources |-> payload.fetched,
                        provenance |-> CreateProvenance(<<"sourcify">>,
                                                        check.provenance, clock),
                        hashes |-> NoHashes]
                  /\ stage' = "PERSISTING"
                  /\ UNCHANGED <<outcome, totalFailed, exitCode>>
           ELSE IF ExplorerFallback
             THEN /\ stage' = "FETCHING_SECONDARY"
                  /\ UNCHANGED <<contractData, outcome, totalFailed, exitCode>>
           ELSE /\ FailContract(Cur)
                /\ UNCHANGED contractData
  /\ UNCHANGED <<clock, ticks, explorerApiBase, primaryHealthy, archiveVars,
                 opts, idx, check, explorerCalls, totalProcessed,
                 totalSuccessful>>
  /\ UNCHANGED <<metaVars, httpVars, libVars, toolVars>>

\* explorer.fetchContractSource(chainConfig, address) in the catch branch
FetchSecondary(answer) ==
  /\ stage = "FETCHING_SECONDARY"
  /\ explorerCalls' = explorerCalls + 1
  /\ IF answer = "ok"
       THEN /\ contractData' =
                 [kind |-> "data", dataSource |-> "explorer",
                  metadata |-> ExplorerMetadata,
                  sources |-> "all",
                  provenance |-> CreateProvenance(<<"explorer">>,
                                                  check.provenance, clock),
                  hashes |-> NoHashes]
            /\ stage' = "PERSISTING"
            /\ UNCHANGED <<outcome, totalFailed, exitCode>>
       ELSE /\ FailContract(Cur)
            /\ UNCHANGED contractData
  /\ UNCHANGED <<clock, ticks, explorerApiBase, primaryHealthy, archiveVars,
                 opts, idx, check, primaryLookups, totalProcessed,
                 totalSuccessful>>
  /\ UNCHANGED <<metaVars, httpVars, libVars, toolVars>>

\* the bytecode verification if requested (it never throws), then
\* validateData(contractData.metadata, ...) and archive.persistContract, which
\* writes metadata.json, validates hashes, and writes provenance.json last.
\* rpcUrl (chainConfig.rpcUrl is set) and rpc (what eth_getCode answers) are
\* the inputs of the verification.
Persist(rpcUrl, rpc) ==
  /\ stage = "PERSISTING"
  /\ LET hashes == IF opts.verifyBytecode
                     THEN CreateHashesRecord(
                            VerifyContract(rpcUrl, rpc,
                                           contractData.metadata.deployedCode,
                                           FALSE))
                     ELSE NoHashes
     IN /\ contractData' = [contractData EXCEPT !.hashes = hashes]
        /\ IF ~ValidateMetadata(contractData.metadata)
             THEN /\ FailContract(Cur)
                  /\ UNCHANGED <<archiveVars, totalSuccessful>>
           ELSE IF hashes.kind = "record" /\ ~ValidateHashes(hashes)
             THEN /\ metaFile' = [metaFile EXCEPT ![Cur] = contractData.metadata]
                  /\ FailContract(Cur)
                  /\ UNCHANGED <<prov, hashFile, totalSuccessful>>
           ELSE /\ metaFile' = [metaFile EXCEPT ![Cur] = contractData.metadata]
                /\ hashFile' = IF hashes.kind = "record"
                                 THEN [hashFile EXCEPT ![Cur] = hashes]
                                 ELSE hashFile
                /\ prov' = [prov EXCEPT ![Cur] = contractData.provenance]
                /\ totalSuccessful' = totalSuccessful + 1
                /\ outcome' = [outcome EXCEPT ![Cur] = "successful"]
                /\ stage' = "PENDING"
                /\ UNCHANGED <<totalFailed, exitCode>>
  /\ UNCHANGED <<clock, ticks, explorerApiBase, primaryHealthy, opts, idx,
                 check, primaryLookups, explorerCalls, totalProcessed>>
  /\ UNCHANGED <<metaVars, httpVars, libVars, toolVars>>

\* (mutant) a failure rate of one half is too high
HighFailureRateFromHalf(failed, processed) ==
  processed > 0 /\ 2 * failed >= processed

\* failureRate = totalProcessed > 0 ? totalFailed / totalProcessed : 0;
\* failureRate > 0.5
HighFailureRate(failed, processed) ==
  processed > 0 /\ 2 * failed > processed

\* after the loop: the summary and the failure-rate exit
FinishRun ==
  /\ stage = "PENDING"
  /\ idx = opts.selected
  /\ ProcessExit(IF HighFailureRate(totalFailed, totalProcessed)
                   THEN "1" ELSE "0")

\* the command's catch: a strict-mode rethrow ends the run with exit code 1
AbortRun ==
  /\ stage = "ABORTING"
  /\ ProcessExit("1")

\* the verify command, for one archived address: metadata.json is read (a
\* missing file is caught and counted), the contract verified and the hashes
\* record written to bytecode/hashes.json with writeJsonFile
VerifyCommand(a, rpcUrl, rpc) ==
  /\ stage = "IDLE"
  /\ hashFile' =
       IF metaFile[a].kind = "absent"
         THEN hashFile
         ELSE [hashFile EXCEPT ![a] =
                 CreateHashesRecord(
                   VerifyContract(rpcUrl, rpc, metaFile[a].deployedCode, FALSE))]
  /\ UNCHANGED <<clock, ticks, explorerApiBase, primaryHealthy, prov, metaFile,
                 runVars>>
  /\ UNCHANGED <<metaVars, httpVars, libVars, toolVars>>

\* what eth_getCode answers during a run
RunRpcAnswers ==
  {RpcFailure, RpcResult(OnlyPrefix), RpcResult(Bytecode("hex", TRUE, "aa"))}

\* the Sourcify documents a run draws: a complete one (contract name, deployed
\* bytecode, every source file fetched) and a bare one
PrimaryPayloads ==
  {[name |-> "string", code |-> Bytecode("hex", TRUE, "aa"), fetched |-> "all"],
   [name |-> "undefined", code |-> NullCode, fetched |-> "partial"]}

\* the command lines of a run: no option, each option alone, and the pairs
\* that interact
Options(force, strict, dryRun, verifyBytecode) ==
  [force |-> force, strict |-> strict, dryRun |-> dryRun,
   verifyBytecode |-> verifyBytecode, selected |-> Len(AddressList)]
\* the same over the first n addresses only (none for n = 0)
Selecting(o, n) == [o EXCEPT !.selected = n]
RunOptions ==
  {Options(FALSE, FALSE, FALSE, FALSE), Options(TRUE, FALSE, FALSE, FALSE),
   Options(FALSE, TRUE, FALSE, FALSE), Options(FALSE, FALSE, TRUE, FALSE),
   Options(FALSE, FALSE, FALSE, TRUE), Options(TRUE, TRUE, FALSE, FALSE),
   Options(TRUE, FALSE, FALSE, TRUE), Options(FALSE, TRUE, FALSE, TRUE),
   Selecting(Options(FALSE, FALSE, FALSE, FALSE), 0),
   Selecting(Options(FALSE, FALSE, FALSE, FALSE), 1)}

ExplorerAnswers == {"ok", "failed"}
\* the answers a run's lookups draw: a payload, a 404, another failure
RunLookupOutcomes == {"ok", "404", "error"}
PrimaryResponses == [1..(2 * Len(DefaultBaseUrls)) -> RunLookupOutcomes]

RunStep ==
  \/ \E o \in RunOptions : StartRun(o)
  \/ CheckStale
  \/ \E resp \in PrimaryResponses, p \in PrimaryPayloads : FetchPrimary(resp, p)
  \/ \E x \in ExplorerAnswers : FetchSecondary(x)
  \/ \E u \in BOOLEAN, r \in RunRpcAnswers : Persist(u, r)
  \/ FinishRun
  \/ AbortRun

(* ------------------ sourcify.js: one fetchMetadata call ---------------- *)

\* Largest number of mirrors (baseUrls) of a client.
MaxMirrors == 2

MirrorNames == <<"repo1", "repo2", "repo3">>
BaseUrlLists == {SubSeq(MirrorNames, 1, n) : n \in 1..MaxMirrors}

NoCall == [made |-> FALSE, addrValid |-> FALSE, baseUrls |-> <<>>, resp |-> <<>>]
NoResult == [ok |-> FALSE, matchType |-> "undefined", sourceUrl |-> "undefined",
             lastError |-> "undefined", lookups |-> <<>>]

MetaIdle ==
  /\ mCall = NoCall
  /\ mResult = NoResult

\* new SourcefyClient({baseUrls}).fetchMetadata(chainId, address)
MetaCall(addrValid, baseUrls, resp) ==
  /\ mCall' = [made |-> TRUE, addrValid |-> addrValid, baseUrls |-> baseUrls,
               resp |-> resp]
  /\ mResult' = FetchMetadata(addrValid, baseUrls, resp)
  /\ UNCHANGED <<clock, ticks, orchVars, httpVars, libVars, toolVars>>

(* ------------------------- http.js: HttpClient ------------------------- *)

DEFAULT_MAX_RETRIES == 3
DEFAULT_RETRY_DELAY == 1000
DEFAULT_MAX_RETRY_DELAY == 10000
\* 24 * 60 * 60 * 1000 ms, in hours
CacheValidityHours == 24

\* options of new HttpClient(options); 0 stands for an option not given
HttpOptions ==
  {[maxRetries |-> 0, retryDelay |-> 0, maxRetryDelay |-> 0],
   [maxRetries |-> 1, retryDelay |-> 3000, maxRetryDelay |-> 5000],
   [maxRetries |-> 2, retryDelay |-> 400, maxRetryDelay |-> 700]}

\* this.maxRetries = options.maxRetries || DEFAULT_MAX_RETRIES, and so on
MaxRetries(o) == IF o.maxRetries = 0 THEN DEFAULT_MAX_RETRIES ELSE o.maxRetries
RetryDelay(o) == IF o.retryDelay = 0 THEN DEFAULT_RETRY_DELAY ELSE o.retryDelay
MaxRetryDelay(o) ==
  IF o.maxRetryDelay = 0 THEN DEFAULT_MAX_RETRY_DELAY ELSE o.maxRetryDelay

Urls == {"u1", "u2"}
Bodies == {"b1", "b2"}

NoEntry == [kind |-> "absent"]
\* a cache file as saveToCache writes it; etag "none": headers.etag undefined
Entry(now, etag, data) ==
  [kind |-> "entry", timestamp |-> now, etag |-> etag, data |-> data]

\* a cache file that does not parse (a write in progress, a truncated file)
TornEntry == [kind |-> "torn"]

\* (mutant) an entry never expires
LoadFromCacheForever(entry, now) ==
  IF entry.kind # "entry" THEN NoEntry ELSE entry

\* (mutant) the cache is never read
LoadFromCacheNever(entry, now) == NoEntry

\* HttpClient.loadFromCache: the entry, or NoEntry (null) for a missing or
\* unparsable file and for an entry older than 24 hours
LoadFromCache(entry, now) ==
  IF entry.kind # "entry" THEN NoEntry
  ELSE IF now - entry.timestamp > CacheValidityHours THEN NoEntry
  ELSE entry

\* what the server (or the network) answers to one attempt: status 0 with
\* kind "network" is an error without response
Response(status, etag, body, hasRetryAfter, retryAfter) ==
  [kind |-> IF status = 0 THEN "network" ELSE "response", status |-> status,
   etag |-> etag, body |-> body, hasRetryAfter |-> hasRetryAfter,
   retryAfter |-> retryAfter]

NoAnswer == Response(0, "none", "none", FALSE, 0)

RetryAfterSeconds == {2, 20}

\* the answers an attempt can get; a server answers 304 only to a conditional
\* request
Answers(conditional) ==
  {Response(200, e, b, FALSE, 0) : e \in {"none", "e1"}, b \in Bodies}
  \cup {Response(st, "none", "err", FALSE, 0) : st \in {0, 400, 404, 500}}
  \cup {Response(429, "none", "err", FALSE, 0)}
  \cup {Response(429, "none", "err", TRUE, sec) : sec \in RetryAfterSeconds}
  \cup (IF conditional THEN {Response(304, "e1", "none", FALSE, 0)} ELSE {})

\* (mutant) the promise resolves for 304 too
ResolvesNotModified(r) ==
  r.kind = "response" /\ ((r.status >= 200 /\ r.status < 300) \/ r.status = 304)

\* axios default validateStatus: the promise resolves for 2xx only
Resolves(r) == r.kind = "response" /\ r.status >= 200 /\ r.status < 300

\* (mutant) every error is retried
IsRetryableAlways(e) == TRUE

\* HttpClient.isRetryableError
IsRetryableError(e) ==
  IF e.kind = "network" THEN TRUE
  ELSE e.status >= 500 \/ e.status = 429

RECURSIVE Pow2(_)
Pow2(k) == IF k = 0 THEN 1 ELSE 2 * Pow2(k - 1)

\* the values drawn for Math.random(), in hundredths
RandomDraws == {0, 50}

\* Math.random() * 0.1 * exponentialDelay, in whole milliseconds
Jitter(exponentialDelay, random) == (random * exponentialDelay) \div 1000

\* (mutant) the delay is not capped
CalculateRetryDelayUncapped(o, attempt, random) ==
  RetryDelay(o) * Pow2(attempt) + Jitter(RetryDelay(o) * Pow2(attempt), random)

\* HttpClient.calculateRetryDelay(attempt), for a drawn Math.random()
CalculateRetryDelay(o, attempt, random) ==
  Min(RetryDelay(o) * Pow2(attempt) + Jitter(RetryDelay(o) * Pow2(attempt), random),
      MaxRetryDelay(o))

\* HttpClient.getRetryAfterDelay(response)
GetRetryAfterDelay(o, r, random) ==
  IF r.hasRetryAfter
    THEN Min(r.retryAfter * 1000, MaxRetryDelay(o))
    ELSE CalculateRetryDelay(o, 0, random)

\* (mutant) the loop gives up one attempt later
ExhaustedLate(o, attempt) == attempt = MaxRetries(o) + 1

\* if (attempt === this.maxRetries) break, the end of
\* for (attempt = 0; attempt <= this.maxRetries; attempt++)
Exhausted(o, attempt) == attempt = MaxRetries(o)

\* (mutant) an error already recorded is kept
KeepsEarlierError(previous, error) ==
  IF previous.status = 0 /\ previous.body = "none" THEN error ELSE previous

\* lastError = error in the catch of the retry loop: each failed attempt
\* overwrites the error recorded before it
LastError(previous, error) == error

NoRequest == [method |-> "none", url |-> "none", ignoreCache |-> FALSE,
              ignoreEtag |-> FALSE, ifNoneMatch |-> "none"]
NoReturn == [kind |-> "none", payload |-> "none", error |-> NoAnswer]
NoPrev == [kind |-> "none", url |-> "none", requests |-> 0]

HttpIdle ==
  /\ httpConfig = [maxRetries |-> 0, retryDelay |-> 0, maxRetryDelay |-> 0]
  /\ cache = [u \in Urls |-> NoEntry]
  /\ hStage = "idle"
  /\ hReq = NoRequest
  /\ hAttempt = 0
  /\ hRequests = 0
  /\ hAnswer = NoAnswer
  /\ hDelays = <<>>
  /\ hResult = NoReturn
  /\ hPrev = NoPrev

\* request(method, url, options) up to the retry loop: the cache lookup and
\* the conditional header
BeginRequest(method, url, ignoreCache, ignoreEtag) ==
  /\ hStage = "idle"
  /\ hStage' = "attempting"
  /\ LET cached == IF method = "GET" /\ ~ignoreCache
                     THEN LoadFromCache(cache[url], clock)
                     ELSE NoEntry
         etag == IF cached.kind = "entry" /\ cached.etag # "none" /\ ~ignoreEtag
                   THEN cached.etag
                   ELSE "none"
     IN hReq' = [method |-> method, url |-> url, ignoreCache |-> ignoreCache,
                 ignoreEtag |-> ignoreEtag, ifNoneMatch |-> etag]
  /\ hAttempt' = 0
  /\ hRequests' = 0
  /\ hAnswer' = NoAnswer
  /\ hDelays' = <<>>
  /\ hResult' = NoReturn
  /\ UNCHANGED <<hPrev, httpConfig, cache>>
  /\ UNCHANGED <<clock, ticks, orchVars, metaVars, libVars, toolVars>>

\* what fs.writeFile does to a file: it writes it, it fails before touching
\* it, or it fails after truncating it
WriteOutcomes == {"written", "refused", "torn"}

\* HttpClient.saveToCache: the entry of url is replaced by the response's
\* payload and headers; a failed write is caught and logged
SaveToCache(entries, url, now, r, write) ==
  CASE write = "written" -> [entries EXCEPT ![url] = Entry(now, r.etag, r.body)]
    [] write = "torn" -> [entries EXCEPT ![url] = TornEntry]
    [] OTHER -> entries

\* (mutant) a 200 answer is cached whatever the method
CachesAnyMethod(method, r) == r.status = 200

\* method.toLowerCase() === 'get' && response.status === 200
CachesResponse(method, r) == method = "GET" /\ r.status = 200

\* one iteration of the retry loop: this.client.request answers r; j is the
\* Math.random() drawn if the iteration sleeps, write what the writing of the
\* cache file does if the iteration saves the response
AttemptSave(r, j, write) ==
  /\ hStage = "attempting"
  /\ r \in Answers(hReq.ifNoneMatch # "none")
  /\ hRequests' = hRequests + 1
  /\ hAnswer' = r
  /\ IF Resolves(r)
       THEN LET cached == LoadFromCache(cache[hReq.url], clock)
            IN /\ hResult' =
                    [kind |-> "returned",
                     payload |-> IF r.status = 304 /\ cached.kind = "entry"
                                   THEN cached.data
                                   ELSE r.body,
                     error |-> NoAnswer]
               /\ cache' =
                    IF CachesResponse(hReq.method, r)
                      THEN SaveToCache(cache, hReq.url, clock, r, write)
                      ELSE cache
               /\ hStage' = "done"
               /\ UNCHANGED <<hAttempt, hDelays>>
     ELSE IF Exhausted(httpConfig, hAttempt) \/ ~IsRetryableError(r)
       THEN /\ hResult' = [kind |-> "threw", payload |-> "none",
                             error |-> LastError(hAnswer, r)]
            /\ hStage' = "done"
            /\ UNCHANGED <<hAttempt, hDelays, cache>>
     ELSE /\ hDelays' =
               Append(hDelays,
                      [status |-> r.status,
                       delay |-> IF r.kind = "response" /\ r.status = 429
                                   THEN GetRetryAfterDelay(httpConfig, r, j)
                                   ELSE CalculateRetryDelay(httpConfig, hAttempt, j)])
          /\ hAttempt' = hAttempt + 1
          /\ UNCHANGED <<hStage, hResult, cache>>
  /\ UNCHANGED <<hReq, hPrev, httpConfig>>
  /\ UNCHANGED <<clock, ticks, orchVars, metaVars, libVars, toolVars>>

\* an iteration of the retry loop on a cache directory that takes every write
Attempt(r, j) == AttemptSave(r, j, "written")

\* what the caller keeps of a call: whether it was a GET answered 200 with an
\* ETag, and the network requests it took
Summary ==
  IF /\ hReq.method = "GET"
     /\ hResult.kind = "returned"
     /\ hAnswer.status = 200
     /\ hAnswer.etag # "none"
    THEN [kind |-> "get200", url |-> hReq.url, requests |-> hRequests]
    ELSE [kind |-> "other", url |-> "none", requests |-> 0]

\* request() has returned or thrown to its caller: its locals are gone
Return ==
  /\ hStage = "done"
  /\ hStage' = "idle"
  /\ hPrev' = Summary
  /\ hReq' = NoRequest
  /\ hAttempt' = 0
  /\ hRequests' = 0
  /\ hAnswer' = NoAnswer
  /\ hDelays' = <<>>
  /\ hResult' = NoReturn
  /\ UNCHANGED <<httpConfig, cache>>
  /\ UNCHANGED <<clock, ticks, orchVars, metaVars, libVars, toolVars>>

\* the cache file of url is deleted, or is read while it is being written
DisturbCache(url, entry) ==
  /\ cache[url] # entry
  /\ cache' = [cache EXCEPT ![url] = entry]
  /\ UNCHANGED <<httpConfig, httpCallVars>>
  /\ UNCHANGED <<clock, ticks, orchVars, metaVars, libVars, toolVars>>

\* another request for url, running at the same time, gets a 200 and saves it
ConcurrentSave(url, etag, body) ==
  /\ cache' = [cache EXCEPT ![url] = Entry(clock, etag, body)]
  /\ cache' # cache
  /\ UNCHANGED <<httpConfig, httpCallVars>>
  /\ UNCHANGED <<clock, ticks, orchVars, metaVars, libVars, toolVars>>

\* the calls made of the client: a GET with default options, with
\* ignoreCache or with ignoreEtag, and a POST
Requests ==
  {[method |-> "GET", ignoreCache |-> FALSE, ignoreEtag |-> FALSE],
   [method |-> "GET", ignoreCache |-> TRUE, ignoreEtag |-> FALSE],
   [method |-> "GET", ignoreCache |-> FALSE, ignoreEtag |-> TRUE],
   [method |-> "POST", ignoreCache |-> FALSE, ignoreEtag |-> FALSE]}

(* -------------------- verify.js: one verifyContract call --------------- *)

\* the bytecodes a call draws: null / undefined, the empty string, '0x', and
\* two programs with and without the 0x prefix
Bytecodes ==
  {NullCode, EmptyCode, OnlyPrefix, Bytecode("hex", TRUE, "aa"),
   Bytecode("hex", FALSE, "aa"), Bytecode("hex", TRUE, "bb")}
RpcAnswers == {RpcFailure} \cup {RpcResult(b) : b \in Bytecodes}

NoVerifyCall ==
  [made |-> FALSE, rpcUrl |-> FALSE, rpc |-> RpcFailure, metaCode |-> NullCode,
   sourcesOnly |-> FALSE]

VerifyIdle ==
  /\ vCall = NoVerifyCall
  /\ vResult = NoVerification

\* verifier.verifyContract(chainConfig, address, metadata)
VerifyCall(rpcUrl, rpc, metaCode, sourcesOnly) ==
  /\ vCall' = [made |-> TRUE, rpcUrl |-> rpcUrl, rpc |-> rpc,
               metaCode |-> metaCode, sourcesOnly |-> sourcesOnly]
  /\ vResult' = VerifyContract(rpcUrl, rpc, metaCode, sourcesOnly)
  /\ UNCHANGED <<clock, ticks, orchVars, metaVars, httpVars, checksumVars,
                 sourcesVars, explorerVars,
                 toolVars>>

(* ------------------------- checksum.js: checksums ---------------------- *)

\* relative paths of a contract directory, and file contents
Paths == {"abi.json", "metadata.json", "source/A.sol"}
Contents == {"c1", "c2"}

\* a directory: the content of each path, "absent" for a path with no file
Directories == [Paths -> Contents \cup {"absent"}]

\* (mutant) every file hashes to the same digest
HashFileConstant(content) == "sha256(c1)"

\* hashFile: the SHA256 digest of the content, in hex
HashFile(content) == IF content = "c1" THEN "sha256(c1)" ELSE "sha256(c2)"

\* generateChecksums(directoryPath): the map from relative path to digest;
\* "undefined" for a key the object does not have
GenerateChecksums(dir) ==
  [p \in Paths |-> IF dir[p] = "absent" THEN "undefined" ELSE HashFile(dir[p])]

\* the manifests read from disk: digests as generateChecksums writes them, of
\* the known contents or of another one
Manifests == [Paths -> {"undefined", "sha256(c1)", "sha256(c2)", "sha256(c3)"}]

\* (mutant) extra files invalidate too
IsValidStrict(missing, extra, mismatched) ==
  missing = {} /\ extra = {} /\ mismatched = {}

\* results.valid: it starts true and is cleared for a missing and for a
\* mismatched file
IsValid(missing, extra, mismatched) == missing = {} /\ mismatched = {}

\* verifyChecksums(directoryPath, expectedChecksums)
VerifyChecksums(dir, expected) ==
  LET current == GenerateChecksums(dir)
      missing == {p \in Paths :
                    expected[p] # "undefined" /\ current[p] = "undefined"}
      extra == {p \in Paths :
                  current[p] # "undefined" /\ expected[p] = "undefined"}
      mismatched == {[file |-> p, expected |-> expected[p], actual |-> current[p]] :
                       p \in {q \in Paths : /\ current[q] # "undefined"
                                            /\ expected[q] # "undefined"
                                            /\ expected[q] # current[q]}}
  IN [made |-> TRUE,
      valid |-> IsValid(missing, extra, mismatched),
      missingFiles |-> missing,
      extraFiles |-> extra,
      mismatchedFiles |-> mismatched]

NoChecksumResult ==
  [made |-> FALSE, valid |-> TRUE, missingFiles |-> {}, extraFiles |-> {},
   mismatchedFiles |-> {}]

EmptyDirectory == [p \in Paths |-> "absent"]
NoManifest == [p \in Paths |-> "undefined"]

ChecksumIdle ==
  /\ kDir \in Directories
  /\ kBase = EmptyDirectory
  /\ kManifest = NoManifest
  /\ kResult = NoChecksumResult

\* a file of the directory is written, overwritten or removed; the result of
\* an earlier verification is gone
WriteFile(p, c) ==
  /\ kDir[p] # c
  /\ kDir' = [kDir EXCEPT ![p] = c]
  /\ kResult' = NoChecksumResult
  /\ UNCHANGED <<kBase, kManifest>>
  /\ UNCHANGED <<clock, ticks, orchVars, metaVars, httpVars, verifyVars,
                 sourcesVars, explorerVars,
                 toolVars>>

\* the manifest is generated from the directory: generateChecksums(dir)
GenerateManifest ==
  /\ kManifest' = GenerateChecksums(kDir)
  /\ kBase' = kDir
  /\ kResult' = NoChecksumResult
  /\ UNCHANGED kDir
  /\ UNCHANGED <<clock, ticks, orchVars, metaVars, httpVars, verifyVars,
                 sourcesVars, explorerVars,
                 toolVars>>

\* verifyChecksums(dir, manifest) of the directory against the manifest
VerifyManifest ==
  /\ kResult' = VerifyChecksums(kDir, kManifest)
  /\ UNCHANGED <<kDir, kBase, kManifest>>
  /\ UNCHANGED <<clock, ticks, orchVars, metaVars, httpVars, verifyVars,
                 sourcesVars, explorerVars,
                 toolVars>>

(* ------------------- sourcify.js: fetchAllSources ---------------------- *)

\* the file paths a source manifest (metadata.sources) can list
SourceFiles == {"A.sol", "B.sol", "C.sol"}

\* SourcefyClient.fetchSourceFile: the mirrors are tried in order, a 404 and
\* any other failure go on to the next one, the first success returns the
\* content; after the last mirror it throws. resp[i] is the answer of mirror i
FetchSourceFile(resp) ==
  IF \E i \in DOMAIN resp : resp[i] = "ok" THEN "ok" ELSE "failed"

\* (mutant) the callback lets the fetch error through
CallbackPropagates(fetch) == IF fetch = "ok" THEN "fulfilled" ELSE "rejected"

\* the promise of one callback of sourceFiles.map: its try/catch logs a
\* failure, so it is fulfilled whatever the fetch did
CallbackSettles(fetch) == "fulfilled"

Unlisted == [promise |-> "none", fetch |-> "none", content |-> "undefined"]
InFlight == [promise |-> "pending", fetch |-> "none", content |-> "undefined"]

NoSources == [p \in SourceFiles |-> "undefined"]
NoSourcesResult == [kind |-> "idle", sources |-> NoSources]

SourcesIdle ==
  /\ sFiles = [p \in SourceFiles |-> Unlisted]
  /\ sSources = NoSources
  /\ sResult = NoSourcesResult

\* fetchAllSources up to Promise.all: without metadata.sources it returns {}
\* at once, else every callback of the map has started its fetch
StartFetchAll(hasSources, manifest) ==
  /\ sResult.kind = "idle"
  /\ sSources' = NoSources
  /\ IF hasSources
       THEN /\ sFiles' = [p \in SourceFiles |->
                            IF p \in manifest THEN InFlight ELSE Unlisted]
            /\ sResult' = [kind |-> "running", sources |-> NoSources]
       ELSE /\ sResult' = [kind |-> "returned", sources |-> NoSources]
            /\ UNCHANGED sFiles
  /\ UNCHANGED <<clock, ticks, orchVars, metaVars, httpVars, verifyVars,
                 checksumVars, explorerVars,
                 toolVars>>

\* the fetch of file p ends and its callback runs to its end: the content is
\* stored under p on success, a failure is caught
SettleFile(p, resp, content) ==
  /\ sFiles[p].promise = "pending"
  /\ LET fetch == FetchSourceFile(resp)
     IN /\ sFiles' = [sFiles EXCEPT ![p] =
                        [promise |-> CallbackSettles(fetch), fetch |-> fetch,
                         content |-> IF fetch = "ok" THEN content
                                                     ELSE "undefined"]]
        /\ sSources' = IF fetch = "ok"
                         THEN [sSources EXCEPT ![p] = content]
                         ELSE sSources
  /\ UNCHANGED sResult
  /\ UNCHANGED <<clock, ticks, orchVars, metaVars, httpVars, verifyVars,
                 checksumVars, explorerVars,
                 toolVars>>

\* await Promise.all(fetchPromises) ends: it rejects as soon as one promise
\* is rejected, and resolves once every promise is fulfilled; then
\* return sources
ReturnSources ==
  /\ sResult.kind = "running"
  /\ \/ /\ \E p \in SourceFiles : sFiles[p].promise = "rejected"
        /\ sResult' = [kind |-> "threw", sources |-> NoSources]
     \/ /\ \A p \in SourceFiles : sFiles[p].promise \in {"none", "fulfilled"}
        /\ sResult' = [kind |-> "returned", sources |-> sSources]
  /\ UNCHANGED <<sFiles, sSources>>
  /\ UNCHANGED <<clock, ticks, orchVars, metaVars, httpVars, verifyVars,
                 checksumVars, explorerVars,
                 toolVars>>

(* ---------------- explorer.js: normalizeExplorerResponse --------------- *)

\* The SourceCode string of an explorer result, by what the parsing looks at:
\* kind "flat" is one Solidity source, kind "doc" a JSON document holding the
\* files inside wraps extra pairs of braces; keyed tells whether the document
\* has a top-level sources property (it contains the word in any case).
SourceText(kind, wraps, keyed, files) ==
  [kind |-> kind, wraps |-> wraps, keyed |-> keyed, files |-> files]

FileSets == {{"A.sol"}, {"A.sol", "B.sol"}, {"A.sol", "B.sol", "C.sol"}}

SourceTexts ==
  {SourceText("flat", 0, FALSE, {})}
  \cup {SourceText("doc", w, k, f) : w \in {0, 1, 2}, k \in BOOLEAN, f \in FileSets}

\* sourceCode.startsWith('{') && sourceCode.includes('sources')
LooksLikeJson(t) == t.kind = "doc"

\* sourceCode.slice(1, -1): one pair of braces less; without its own braces a
\* document is a fragment
Slice(t) ==
  IF t.wraps >= 1 THEN [t EXCEPT !.wraps = t.wraps - 1]
                  ELSE [t EXCEPT !.kind = "fragment"]

\* JSON.parse(text): it throws unless the text is one JSON document; .sources
\* of the parsed document is its file map, or undefined without that property
JsonParse(t) ==
  IF t.kind = "doc" /\ t.wraps = 0
    THEN [threw |-> FALSE, hasSources |-> t.keyed, files |-> t.files]
    ELSE [threw |-> TRUE, hasSources |-> FALSE, files |-> {}]

\* an entry of the sources mapping: the file name and what its content is (the
\* content of that file, or the whole SourceCode string)
FileEntry(f) == [name |-> f, content |-> "file"]
SingleFile == {[name |-> "ContractName.sol", content |-> "SourceCode"]}

\* lines 111-139: the try block and its catch
ParseSources(t) ==
  IF ~LooksLikeJson(t) THEN SingleFile
  ELSE LET parsed == JsonParse(t)
           inner == JsonParse(Slice(t))
       IN IF parsed.threw THEN SingleFile
          ELSE IF parsed.hasSources THEN {FileEntry(f) : f \in parsed.files}
          ELSE IF inner.threw THEN SingleFile
          ELSE IF inner.hasSources THEN {FileEntry(f) : f \in inner.files}
          ELSE {}

\* the Library field: empty, a JSON text, or the explorer's name:address list
Libraries == {"", "json", "list"}

NoNormalized == [threw |-> FALSE, sources |-> {}, abi |-> "none"]

\* ExplorerClient.normalizeExplorerResponse: sources, the ABI ([] when it does
\* not parse) and the metadata, whose settings.libraries is
\* Library ? JSON.parse(Library) : {} outside any try
NormalizeExplorerResponse(t, abiParses, library) ==
  IF library = "list"
    THEN [NoNormalized EXCEPT !.threw = TRUE]
    ELSE [threw |-> FALSE, sources |-> ParseSources(t),
          abi |-> IF abiParses THEN "parsed" ELSE "empty"]

NoExplorerCall ==
  [made |-> FALSE, text |-> SourceText("flat", 0, FALSE, {}),
   abiParses |-> FALSE, library |-> ""]

ExplorerIdle ==
  /\ xCall = NoExplorerCall
  /\ xResult = NoNormalized

\* this.normalizeExplorerResponse(result, chainConfig, address)
NormalizeCall(t, abiParses, library) ==
  /\ xCall' = [made |-> TRUE, text |-> t, abiParses |-> abiParses,
               library |-> library]
  /\ xResult' = NormalizeExplorerResponse(t, abiParses, library)
  /\ UNCHANGED <<clock, ticks, orchVars, metaVars, httpVars, verifyVars,
                 checksumVars, sourcesVars,
                 toolVars>>

(* ------------------- archive.js: persistContract ----------------------- *)

\* (mutant) provenance.json is written first
ProvenanceFirst ==
  <<"provenance", "metadata", "abi", "sources", "bytecode", "hashes", "labels">>

\* the artifacts of contractData, in the order persistContract writes them
PersistOrder ==
  <<"metadata", "abi", "sources", "bytecode", "hashes", "labels", "provenance">>

Artifacts == {PersistOrder[i] : i \in DOMAIN PersistOrder}

\* the artifacts persistContract checks with validateData before it writes
Validated == {"metadata", "hashes", "labels", "provenance"}

\* a file of the contract directory: "absent", "old" (left by an earlier
\* fetch), "new" (written by this call) or "torn" (a write that did not end)
NoDirectory == [f \in Artifacts |-> "absent"]
NoPersistData == [given |-> {}, invalid |-> {}]

NoPosition == [at |-> 0, state |-> "idle"]
At(i) == [at |-> i, state |-> "running"]
Ended(i, how) == [at |-> i, state |-> how]

PersistIdle ==
  /\ pData = NoPersistData
  /\ pDir = NoDirectory
  /\ pPos = NoPosition

\* the statement after the one at position i
After(i) == IF i = Len(PersistOrder) THEN Ended(i, "returned") ELSE At(i + 1)

\* archive.persistContract(chainName, address, contractData) is called
StartPersist(given, invalid) ==
  /\ pPos = NoPosition
  /\ pData' = [given |-> given, invalid |-> invalid]
  /\ pPos' = At(1)
  /\ UNCHANGED pDir
  /\ UNCHANGED <<clock, ticks, orchVars, metaVars, httpVars, libVars,
                 registryVars, cliFetchVars>>

\* one if-block of persistContract: an artifact contractData lacks is passed
\* over, an invalid one makes validateData throw, else its file is written;
\* write is what fs.writeFile does (WriteOutcomes)
PersistArtifact(write) ==
  /\ pPos.state = "running"
  /\ LET i == pPos.at
         f == PersistOrder[i]
     IN IF f \notin pData.given
          THEN pPos' = After(i) /\ UNCHANGED pDir
        ELSE IF f \in Validated /\ f \in pData.invalid
          THEN pPos' = Ended(i, "threw") /\ UNCHANGED pDir
        ELSE CASE write = "written" ->
                    pDir' = [pDir EXCEPT ![f] = "new"] /\ pPos' = After(i)
               [] write = "torn" ->
                    /\ pDir' = [pDir EXCEPT ![f] = "torn"]
                    /\ pPos' = Ended(i, "threw")
               [] OTHER -> pPos' = Ended(i, "threw") /\ UNCHANGED pDir
  /\ UNCHANGED pData
  /\ UNCHANGED <<clock, ticks, orchVars, metaVars, httpVars, libVars,
                 registryVars, cliFetchVars>>

\* the process is killed while persistContract runs: in the middle of a write
\* (the file is left torn) or between two statements
KillPersist(midWrite) ==
  /\ pPos.state = "running"
  /\ LET f == PersistOrder[pPos.at]
     IN pDir' = IF midWrite /\ f \in pData.given
                    /\ ~(f \in Validated /\ f \in pData.invalid)
                  THEN [pDir EXCEPT ![f] = "torn"]
                  ELSE pDir
  /\ pPos' = Ended(pPos.at, "killed")
  /\ UNCHANGED pData
  /\ UNCHANGED <<clock, ticks, orchVars, metaVars, httpVars, libVars,
                 registryVars, cliFetchVars>>

(* --------------------- registry.js: RegistryManager -------------------- *)

\* An address as a command or a contract-set file gives it: the account it
\* names and how it is written (EIP-55 checksum case, lower case, or not an
\* address at all).
Address(id, form) == [id |-> id, form |-> form]
AccountIds == {"x", "y"}
Aliases == {"A", "B"}

\* toChecksumAddress(address): throws for a string that is no address
ToChecksumAddress(a) ==
  IF a.form = "invalid" THEN [threw |-> TRUE, address |-> a]
  ELSE [threw |-> FALSE, address |-> Address(a.id, "checksum")]

\* isValidChecksumAddress(address): address === toChecksumAddress(address)
IsValidChecksumAddress(a) ==
  ~ToChecksumAddress(a).threw /\ ToChecksumAddress(a).address = a

\* address.toLowerCase()
ToLowerCase(a) == IF a.form = "invalid" THEN a ELSE Address(a.id, "lower")

\* an entry of registry.contracts
Contract(alias, address, archived, archivedAt) ==
  [alias |-> alias, address |-> address, archived |-> archived,
   archivedAt |-> archivedAt]

NoRegistry == [exists |-> FALSE, createdAt |-> 0, updatedAt |-> 0, contracts |-> <<>>]
NoRegistryCall ==
  [op |-> "none", threw |-> FALSE, found |-> <<>>,
   arg |-> [kind |-> "none", alias |-> "", address |-> Address("", "invalid")]]

RegistryIdle ==
  /\ registry = NoRegistry
  /\ rLast = NoRegistryCall

\* what a call was given: an alias, an address, or both
Given(kind, alias, address) == [kind |-> kind, alias |-> alias, address |-> address]

Called(op, arg, threw, found) ==
  [op |-> op, threw |-> threw, found |-> found, arg |-> arg]

\* RegistryManager.saveRegistry for a registry whose contracts are now
\* contracts
SaveRegistry(r, contracts, now) ==
  [r EXCEPT !.updatedAt = now, !.contracts = contracts]

\* initChain writes registry.json only when fs.access finds none
InitCreates(r) == ~r.exists

\* RegistryManager.initChain
InitChain ==
  /\ registry' = IF InitCreates(registry)
                   THEN [exists |-> TRUE, createdAt |-> clock,
                         updatedAt |-> clock, contracts |-> <<>>]
                   ELSE registry
  /\ rLast' = Called("initChain", NoRegistryCall.arg, FALSE, <<>>)
  /\ UNCHANGED <<clock, ticks, orchVars, metaVars, httpVars, libVars, persistVars,
                 cliFetchVars>>

\* (mutant) addContract looks for an entry that is not archived
ExistingLive(contracts, alias, checksumAddress) ==
  {i \in DOMAIN contracts :
     /\ ~contracts[i].archived
     /\ \/ ToLowerCase(contracts[i].address) = ToLowerCase(checksumAddress)
        \/ contracts[i].alias = alias}

\* the entries registry.contracts.find tests true in addContract
Existing(contracts, alias, checksumAddress) ==
  {i \in DOMAIN contracts :
     \/ ToLowerCase(contracts[i].address) = ToLowerCase(checksumAddress)
     \/ contracts[i].alias = alias}

\* RegistryManager.addContract(chainId, chainName, {alias, address})
AddContract(alias, address) ==
  /\ LET arg == Given("both", alias, address)
         checksumAddress == ToChecksumAddress(address).address
     IN IF \/ ~IsValidChecksumAddress(address)
           \/ ~registry.exists
           \/ Existing(registry.contracts, alias, checksumAddress) # {}
          THEN /\ rLast' = Called("addContract", arg, TRUE, <<>>)
               /\ UNCHANGED registry
          ELSE /\ registry' =
                    SaveRegistry(registry,
                                 Append(registry.contracts,
                                        Contract(alias, checksumAddress, FALSE, 0)),
                                 clock)
               /\ rLast' = Called("addContract", arg, FALSE, <<>>)
  /\ UNCHANGED <<clock, ticks, orchVars, metaVars, httpVars, libVars, persistVars,
                 cliFetchVars>>

\* the index registry.contracts.findIndex returns in removeContract, 0 for -1
FindIndex(contracts, checksumAddress) ==
  LET hits == {i \in DOMAIN contracts :
                 ToLowerCase(contracts[i].address) = ToLowerCase(checksumAddress)}
  IN IF hits = {} THEN 0 ELSE CHOOSE i \in hits : \A j \in hits : i <= j

\* RegistryManager.removeContract(chainId, chainName, address)
RemoveContract(address) ==
  /\ LET arg == Given("address", "", address)
         checksumAddress == ToChecksumAddress(address).address
         i == FindIndex(registry.contracts, checksumAddress)
     IN IF ~IsValidChecksumAddress(address) \/ ~registry.exists \/ i = 0
          THEN /\ rLast' = Called("removeContract", arg, TRUE, <<>>)
               /\ UNCHANGED registry
          ELSE /\ registry' =
                    SaveRegistry(registry,
                                 [registry.contracts EXCEPT
                                    ![i].archived = TRUE, ![i].archivedAt = clock],
                                 clock)
               /\ rLast' = Called("removeContract", arg, FALSE, <<>>)
  /\ UNCHANGED <<clock, ticks, orchVars, metaVars, httpVars, libVars, persistVars,
                 cliFetchVars>>

\* what getContract(identifier) returns: the first entry whose address (for an
\* identifier in checksum case) or alias (else) matches, unless archived
GetContract(r, identifier) ==
  LET hits == {i \in DOMAIN r.contracts :
                 IF identifier.kind = "address"
                      /\ IsValidChecksumAddress(identifier.address)
                   THEN ToLowerCase(r.contracts[i].address)
                          = ToLowerCase(identifier.address)
                   ELSE identifier.kind = "alias"
                          /\ r.contracts[i].alias = identifier.alias}
      first == CHOOSE i \in hits : \A j \in hits : i <= j
  IN IF ~r.exists \/ hits = {} THEN [threw |-> TRUE, found |-> <<>>]
     ELSE IF r.contracts[first].archived THEN [threw |-> TRUE, found |-> <<>>]
     ELSE [threw |-> FALSE, found |-> <<r.contracts[first]>>]

\* what listContracts(includeArchived) returns
ListContracts(r, includeArchived) ==
  IF ~r.exists THEN [threw |-> TRUE, found |-> <<>>]
  ELSE [threw |-> FALSE,
        found |-> IF includeArchived THEN r.contracts
                  ELSE SelectSeq(r.contracts, LAMBDA c : ~c.archived)]

\* RegistryManager.getContract(chainId, chainName, identifier)
GetContractCall(identifier) ==
  /\ LET got == GetContract(registry, identifier)
     IN rLast' = Called("getContract", identifier, got.threw, got.found)
  /\ UNCHANGED registry
  /\ UNCHANGED <<clock, ticks, orchVars, metaVars, httpVars, libVars, persistVars,
                 cliFetchVars>>

\* RegistryManager.listContracts(chainId, chainName, includeArchived)
ListContractsCall(includeArchived) ==
  /\ LET got == ListContracts(registry, includeArchived)
     IN rLast' = Called(IF includeArchived THEN "listAll" ELSE "listContracts",
                        NoRegistryCall.arg, got.threw, got.found)
  /\ UNCHANGED registry
  /\ UNCHANGED <<clock, ticks, orchVars, metaVars, httpVars, libVars, persistVars,
                 cliFetchVars>>

\* the contracts of a contract-set file: contractSetSchema asks for an alias
\* and an address string in every entry, nothing more
SetEntry(alias, address) == [alias |-> alias, address |-> address]

\* RegistryManager.switchContractSet with a set file that loads: the backup is
\* written, then the contracts are replaced by the set's, each address in
\* checksum case; an entry that is no address makes the map throw
SwitchContractSet(set) ==
  /\ LET bad == \E i \in DOMAIN set : ToChecksumAddress(set[i].address).threw
     IN IF ~registry.exists \/ bad
          THEN /\ rLast' = Called("switchContractSet", NoRegistryCall.arg, TRUE, <<>>)
               /\ UNCHANGED registry
          ELSE /\ registry' =
                    SaveRegistry(registry,
                                 [i \in DOMAIN set |->
                                    Contract(set[i].alias,
                                             ToChecksumAddress(set[i].address).address,
                                             FALSE, 0)],
                                 clock)
               /\ rLast' = Called("switchContractSet", NoRegistryCall.arg, FALSE, <<>>)
  /\ UNCHANGED <<clock, ticks, orchVars, metaVars, httpVars, libVars, persistVars,
                 cliFetchVars>>

(* ------------------ cli.js: the registry-based fetch ------------------- *)

\* The content of a file: text for a fetched artifact, at for the date a
\* provenance.json carries, of for the entries of a checksums.json (pairs of a
\* path and its checksum) or the checksum a provenance.json quotes.
FileContent(text, at, of) == [text |-> text, at |-> at, of |-> of]
Absent == FileContent("absent", 0, {})
Data(text) == FileContent(text, 0, {})

\* hashFile(fullPath): SHA-256 of the content; different contents have
\* different checksums
Sha256(content) == [sha |-> content]

ContractFiles ==
  {"abi.json", "metadata.json", "sources/A.sol", "checksums.json", "provenance.json"}

\* generateChecksums(contractDir): a checksum for every file the scan of the
\* directory finds
ScanDirectory(dir) ==
  {<<p, Sha256(dir[p])>> : p \in {q \in ContractFiles : dir[q] # Absent}}

\* the paths of a checksums map
Keys(checksums) == {e[1] : e \in checksums}

\* verifyChecksums(contractDir, checksums.files) as validateChecksums reads
\* it: valid unless a listed file is missing or has another checksum
VerifyListed(dir, expected) ==
  LET current == ScanDirectory(dir)
      missing == Keys(expected) \ Keys(current)
      mismatched == {p \in Keys(current) \cap Keys(expected) :
                       \E e \in expected, c \in current :
                         e[1] = p /\ c[1] = p /\ e[2] # c[2]}
  IN [valid |-> missing = {} /\ mismatched = {},
      missing |-> missing, mismatched |-> mismatched]

NoValidation == [made |-> FALSE, valid |-> FALSE, missing |-> {}, mismatched |-> {}]

\* Validator.validateChecksums(contractDir)
ValidateChecksums(dir) ==
  IF dir["checksums.json"] = Absent
    THEN [made |-> TRUE, valid |-> FALSE, missing |-> {}, mismatched |-> {}]
    ELSE LET v == VerifyListed(dir, dir["checksums.json"].of)
         IN [made |-> TRUE, valid |-> v.valid, missing |-> v.missing,
             mismatched |-> v.mismatched]

NoContractDir == [p \in ContractFiles |-> Absent]

CliFetchIdle ==
  /\ gDir = NoContractDir
  /\ gFetches = 0
  /\ gResult = NoValidation

\* normalize.extractAbi(metadata)
ExtractAbi(metadata) == IF metadata = "c1" THEN "abi of c1" ELSE "abi of c2"

\* one iteration of the fetch command's loop for a contract whose metadata
\* Sourcify returns: metadata.json and abi.json are written, each source file
\* fetchAllSources got (source is "none" when it got none), then
\* checksums.json from generateChecksums of the directory as it is, then
\* provenance.json with the date of the fetch and the first checksum
CliFetch(metadata, source) ==
  /\ gFetches < MaxFetches
  /\ gFetches' = gFetches + 1
  /\ LET written == [gDir EXCEPT
                       !["metadata.json"] = Data(metadata),
                       !["abi.json"] = Data(ExtractAbi(metadata)),
                       !["sources/A.sol"] =
                          IF source = "none" THEN @ ELSE Data(source)]
         checksums == ScanDirectory(written)
     IN gDir' = [written EXCEPT
                   !["checksums.json"] = FileContent("checksums", 0, checksums),
                   !["provenance.json"] =
                      FileContent("provenance", clock,
                                  {e \in checksums : e[1] = "abi.json"})]
  /\ gResult' = NoValidation
  /\ UNCHANGED <<clock, ticks, orchVars, metaVars, httpVars, libVars,
                 persistVars, registryVars>>

\* the validate command checks the directory's checksums
ValidateChecksumsCall ==
  /\ gResult' = ValidateChecksums(gDir)
  /\ UNCHANGED <<gDir, gFetches>>
  /\ UNCHANGED <<clock, ticks, orchVars, metaVars, httpVars, libVars,
                 persistVars, registryVars>>

\* no tool outside the fetch pipeline is in use
ToolIdle == PersistIdle /\ RegistryIdle /\ CliFetchIdle

\* the verifier and the checksum functions are not in use
LibIdle ==
  /\ VerifyIdle
  /\ SourcesIdle
  /\ ExplorerIdle
  /\ kDir = EmptyDirectory
  /\ kBase = EmptyDirectory
  /\ kManifest = NoManifest
  /\ kResult = NoChecksumResult

(* --------------------------- specifications ---------------------------- *)

\* the fetch command is not running
OrchIdle ==
  /\ stage = "IDLE"
  /\ opts = NoOptions
  /\ idx = 0
  /\ check = NoCheck
  /\ contractData = NoContractData
  /\ primaryLookups = <<>>
  /\ explorerCalls = 0
  /\ outcome = [a \in Addresses |-> "pending"]
  /\ totalProcessed = 0
  /\ totalSuccessful = 0
  /\ totalFailed = 0
  /\ exitCode = "none"

\* an archive with no record, or with provenance.json files left unreadable
Init ==
  /\ clock = 0
  /\ ticks = 0
  /\ explorerApiBase \in BOOLEAN
  /\ primaryHealthy = FALSE
  /\ prov \in [Addresses -> {NoProvenance, CorruptProvenance}]
  /\ metaFile = [a \in Addresses |-> NoMetadata]
  /\ hashFile = [a \in Addresses |-> NoHashes]
  /\ OrchIdle
  /\ MetaIdle
  /\ HttpIdle
  /\ LibIdle
  /\ ToolIdle

Next ==
  \/ \E d \in TickHours : Tick(d)
  \/ Heal
  \/ \E a \in Addresses : MarkOrphaned(a)
  \/ RunStep

Spec == Init /\ [][Next]_vars

\* the fetch and verify commands on one archive, in any order
NextCommands ==
  \/ RunStep
  \/ \E a \in Addresses, u \in BOOLEAN, r \in RunRpcAnswers : VerifyCommand(a, u, r)

SpecCommands == Init /\ [][NextCommands]_vars

\* runs keep happening and a started run keeps going
FairSpec == Spec /\ WF_vars(RunStep)


\* fetchMetadata applied to every client and every answer of the mirrors
InitMeta ==
  /\ clock = 0
  /\ ticks = 0
  /\ explorerApiBase = FALSE
  /\ primaryHealthy = FALSE
  /\ prov = [a \in Addresses |-> NoProvenance]
  /\ metaFile = [a \in Addresses |-> NoMetadata]
  /\ hashFile = [a \in Addresses |-> NoHashes]
  /\ OrchIdle
  /\ MetaIdle
  /\ HttpIdle
  /\ LibIdle
  /\ ToolIdle

\* one call, of any client, with any address and any answers
NextMeta ==
  /\ ~mCall.made
  /\ \E v \in BOOLEAN, urls \in BaseUrlLists :
       \E resp \in [1..(2 * Len(urls)) -> LookupOutcomes] : MetaCall(v, urls, resp)

SpecMeta == InitMeta /\ [][NextMeta]_vars

\* the HTTP client is idle, its cache directory empty
HttpStart ==
  /\ cache = [u \in Urls |-> NoEntry]
  /\ hStage = "idle"
  /\ hReq = NoRequest
  /\ hAttempt = 0
  /\ hRequests = 0
  /\ hAnswer = NoAnswer
  /\ hDelays = <<>>
  /\ hResult = NoReturn
  /\ hPrev = NoPrev

\* the orchestrator and fetchMetadata are not running
RestIdle ==
  /\ explorerApiBase = FALSE
  /\ primaryHealthy = FALSE
  /\ prov = [a \in Addresses |-> NoProvenance]
  /\ metaFile = [a \in Addresses |-> NoMetadata]
  /\ hashFile = [a \in Addresses |-> NoHashes]
  /\ OrchIdle
  /\ MetaIdle
  /\ LibIdle

\* an HttpClient of any configuration
InitRetry ==
  /\ clock = 0
  /\ ticks = 0
  /\ RestIdle
  /\ ToolIdle
  /\ httpConfig \in HttpOptions
  /\ HttpStart

\* the answers SpecRetry draws: one success, every kind of failure
RetryAnswers ==
  {Response(200, "e1", "b1", FALSE, 0)}
  \cup {a \in Answers(TRUE) : a.status # 200}

RetryRequests == {q \in Requests : ~q.ignoreCache /\ ~q.ignoreEtag}

NextRetry ==
  \/ \E q \in RetryRequests :
       BeginRequest(q.method, "u1", q.ignoreCache, q.ignoreEtag)
  \/ \E r \in RetryAnswers, j \in RandomDraws : Attempt(r, j)
  \/ Return

SpecRetry == InitRetry /\ [][NextRetry]_vars

\* SpecRetry where an attempt that is under way ends: axios is created with a
\* timeout, so client.request settles, and sleep(delay) resolves after a
\* finite delay
AttemptStep == \E r \in RetryAnswers, j \in RandomDraws : Attempt(r, j)

FairRetry == SpecRetry /\ WF_vars(AttemptStep)

\* the client the cache is exercised with: one retry
CacheClientOptions == [maxRetries |-> 1, retryDelay |-> 3000, maxRetryDelay |-> 5000]

\* an HttpClient with an empty cache directory
InitHttp ==
  /\ clock = 0
  /\ ticks = 0
  /\ RestIdle
  /\ ToolIdle
  /\ httpConfig = CacheClientOptions
  /\ HttpStart

\* the answers SpecHttp draws: every success, not modified, a fatal and a
\* retryable failure
CacheAnswers == {a \in Answers(TRUE) : a.status \in {200, 304, 404, 500}}

NextHttp ==
  \/ \E d \in TickHours : Tick(d)
  \/ \E q \in Requests, u \in Urls :
       BeginRequest(q.method, u, q.ignoreCache, q.ignoreEtag)
  \/ \E r \in CacheAnswers : Attempt(r, 0)
  \/ Return

SpecHttp == InitHttp /\ [][NextHttp]_vars

\* GET and POST calls with default options on a cache directory whose writes
\* can fail
NextSave ==
  \/ \E d \in TickHours : Tick(d)
  \/ \E q \in RetryRequests, u \in Urls :
       BeginRequest(q.method, u, q.ignoreCache, q.ignoreEtag)
  \/ \E r \in CacheAnswers, w \in WriteOutcomes : AttemptSave(r, 0, w)
  \/ Return

SpecSave == InitHttp /\ [][NextSave]_vars

\* the client on one URL whose cache file changes under it: deleted or torn at
\* any time, and written by a concurrent request for the same URL
CacheUrl == "u1"

NextCache ==
  \/ \E d \in TickHours : Tick(d)
  \/ \E q \in Requests :
       BeginRequest(q.method, CacheUrl, q.ignoreCache, q.ignoreEtag)
  \/ \E r \in CacheAnswers : Attempt(r, 0)
  \/ Return
  \/ \E e \in {NoEntry, TornEntry} : DisturbCache(CacheUrl, e)
  \/ \E b \in Bodies : ConcurrentSave(CacheUrl, "e1", b)

SpecCache == InitHttp /\ [][NextCache]_vars

\* the fetch command over an archive directory that already holds
\* provenance.json records naming the primary source (the record the README
\* shows), dated at the time the clock starts
PriorRecord ==
  [kind |-> "record", firstSeenAt |-> 0, lastUpdatedAt |-> 0,
   sourcesUsed |-> <<"sourcify">>, orphaned |-> FALSE]

InitArchive ==
  /\ clock = 0
  /\ ticks = 0
  /\ explorerApiBase \in BOOLEAN
  /\ primaryHealthy = FALSE
  /\ prov \in [Addresses -> {NoProvenance, PriorRecord}]
  /\ metaFile = [a \in Addresses |-> NoMetadata]
  /\ hashFile = [a \in Addresses |-> NoHashes]
  /\ OrchIdle
  /\ MetaIdle
  /\ HttpIdle
  /\ LibIdle
  /\ ToolIdle

NextArchive ==
  \/ \E d \in TickHours : Tick(d)
  \/ RunStep

SpecArchive == InitArchive /\ [][NextArchive]_vars

\* verifyContract applied once to every configuration, RPC answer and
\* metadata bytecode
InitVerify ==
  /\ clock = 0
  /\ ticks = 0
  /\ RestIdle
  /\ ToolIdle
  /\ httpConfig = CacheClientOptions
  /\ HttpStart

NextVerify ==
  /\ ~vCall.made
  /\ \E u \in BOOLEAN, r \in RpcAnswers, c \in Bytecodes, t \in BOOLEAN :
       VerifyCall(u, r, c, t)

SpecVerify == InitVerify /\ [][NextVerify]_vars

\* one persistContract call on a new contract directory or on one an earlier
\* fetch filled; the fetch command always passes metadata, abi and provenance
FetchedArtifacts ==
  {{"metadata", "abi", "provenance"} \cup x : x \in SUBSET {"sources", "hashes", "labels"}}

InitPersist ==
  /\ clock = 0
  /\ ticks = 0
  /\ RestIdle
  /\ httpConfig = [maxRetries |-> 0, retryDelay |-> 0, maxRetryDelay |-> 0]
  /\ HttpStart
  /\ RegistryIdle
  /\ CliFetchIdle
  /\ pData = NoPersistData
  /\ pPos = NoPosition
  /\ pDir \in {NoDirectory,
               [f \in Artifacts |->
                  IF f \in {"metadata", "abi", "sources", "provenance"}
                    THEN "old" ELSE "absent"]}

NextPersist ==
  \/ \E g \in FetchedArtifacts, i \in SUBSET {"metadata", "hashes", "provenance"} :
       StartPersist(g, i)
  \/ \E w \in WriteOutcomes : PersistArtifact(w)
  \/ \E m \in BOOLEAN : KillPersist(m)

SpecPersist == InitPersist /\ [][NextPersist]_vars

\* the registry commands on one chain: init-chain, add-contract,
\* remove-contract and the lookups, with addresses in every spelling
AddressInputs ==
  {Address(i, f) : i \in AccountIds, f \in {"checksum", "lower"}}
  \cup {Address("x", "invalid")}

Identifiers ==
  {Given("alias", n, Address("", "invalid")) : n \in Aliases}
  \cup {Given("address", "", a) : a \in AddressInputs}

InitRegistry ==
  /\ clock = 0
  /\ ticks = 0
  /\ RestIdle
  /\ httpConfig = [maxRetries |-> 0, retryDelay |-> 0, maxRetryDelay |-> 0]
  /\ HttpStart
  /\ PersistIdle
  /\ RegistryIdle
  /\ CliFetchIdle

NextRegistry ==
  \/ Tick(1)
  \/ InitChain
  \/ \E n \in Aliases, a \in AddressInputs : AddContract(n, a)
  \/ \E a \in AddressInputs : RemoveContract(a)
  \/ \E i \in Identifiers : GetContractCall(i)
  \/ \E b \in BOOLEAN : ListContractsCall(b)

SpecRegistry == InitRegistry /\ [][NextRegistry]_vars

\* the set files switch-set is given: a proper set, one that names an account
\* twice in two spellings, one that uses an alias twice, one with a string
\* that is no address
ContractSets ==
  {<<SetEntry("A", Address("x", "lower"))>>,
   <<SetEntry("A", Address("y", "checksum")), SetEntry("B", Address("x", "checksum"))>>,
   <<SetEntry("A", Address("x", "checksum")), SetEntry("B", Address("x", "lower"))>>,
   <<SetEntry("A", Address("x", "checksum")), SetEntry("A", Address("y", "checksum"))>>,
   <<SetEntry("A", Address("x", "invalid"))>>}

NextRegistrySets ==
  \/ InitChain
  \/ \E n \in Aliases, a \in AddressInputs : AddContract(n, a)
  \/ \E a \in AddressInputs : RemoveContract(a)
  \/ \E set \in ContractSets : SwitchContractSet(set)

SpecRegistrySets == InitRegistry /\ [][NextRegistrySets]_vars

\* the registry-based fetch of one contract, run again as time passes, and
\* the validation of its checksums
InitCliFetch ==
  /\ clock = 0
  /\ ticks = 0
  /\ RestIdle
  /\ httpConfig = [maxRetries |-> 0, retryDelay |-> 0, maxRetryDelay |-> 0]
  /\ HttpStart
  /\ PersistIdle
  /\ RegistryIdle
  /\ CliFetchIdle

NextCliFetch ==
  \/ Tick(1)
  \/ \E m \in Contents, c \in Contents \cup {"none"} : CliFetch(m, c)
  \/ ValidateChecksumsCall

SpecCliFetch == InitCliFetch /\ [][NextCliFetch]_vars

\* fetchAllSources applied to every manifest, its fetches ending in any order
\* with any answers of the mirrors
InitSources ==
  /\ clock = 0
  /\ ticks = 0
  /\ RestIdle
  /\ ToolIdle
  /\ httpConfig = CacheClientOptions
  /\ HttpStart

NextSources ==
  \/ \E h \in BOOLEAN, m \in SUBSET SourceFiles : StartFetchAll(h, m)
  \/ \E p \in SourceFiles, resp \in [1..MaxMirrors -> LookupOutcomes],
        c \in Contents : SettleFile(p, resp, c)
  \/ ReturnSources

SpecSources == InitSources /\ [][NextSources]_vars

\* normalizeExplorerResponse applied once to every explorer result
InitExplorer ==
  /\ clock = 0
  /\ ticks = 0
  /\ RestIdle
  /\ ToolIdle
  /\ httpConfig = CacheClientOptions
  /\ HttpStart

NextExplorer ==
  /\ ~xCall.made
  /\ \E t \in SourceTexts, a \in BOOLEAN, l \in Libraries : NormalizeCall(t, a, l)

SpecExplorer == InitExplorer /\ [][NextExplorer]_vars

\* a contract directory whose files change, with a manifest generated from it
InitChecksum ==
  /\ clock = 0
  /\ ticks = 0
  /\ explorerApiBase = FALSE
  /\ primaryHealthy = FALSE
  /\ prov = [a \in Addresses |-> NoProvenance]
  /\ metaFile = [a \in Addresses |-> NoMetadata]
  /\ hashFile = [a \in Addresses |-> NoHashes]
  /\ OrchIdle
  /\ MetaIdle
  /\ VerifyIdle
  /\ SourcesIdle
  /\ ExplorerIdle
  /\ ToolIdle
  /\ httpConfig = CacheClientOptions
  /\ HttpStart
  /\ ChecksumIdle

NextChecksum ==
  \/ \E p \in Paths, c \in Contents \cup {"absent"} : WriteFile(p, c)
  \/ GenerateManifest
  \/ VerifyManifest

SpecChecksum == InitChecksum /\ [][NextChecksum]_vars

\* verifyChecksums applied once to every directory and every manifest read
\* from disk
InitManifest ==
  /\ clock = 0
  /\ ticks = 0
  /\ explorerApiBase = FALSE
  /\ primaryHealthy = FALSE
  /\ prov = [a \in Addresses |-> NoProvenance]
  /\ metaFile = [a \in Addresses |-> NoMetadata]
  /\ hashFile = [a \in Addresses |-> NoHashes]
  /\ OrchIdle
  /\ MetaIdle
  /\ VerifyIdle
  /\ SourcesIdle
  /\ ExplorerIdle
  /\ ToolIdle
  /\ httpConfig = CacheClientOptions
  /\ HttpStart
  /\ kDir \in Directories
  /\ kBase = EmptyDirectory
  /\ kManifest \in Manifests
  /\ kResult = NoChecksumResult

NextManifest ==
  /\ ~kResult.made
  /\ VerifyManifest

SpecManifest == InitManifest /\ [][NextManifest]_vars


(* ------------------------------ claims --------------------------------- *)

AllPersisted == \A a \in Addresses : HasRecord(prov[a])

\* the address Cur has been taken by the loop and its processing has ended
CurFinished == idx >= 1 /\ stage \in {"PENDING", "ABORTING"}

\* every pair of the scan was looked up and answered 404
Primary404Everywhere ==
  /\ Len(primaryLookups) = 2 * Len(DefaultBaseUrls)
  /\ \A i \in 1..Len(primaryLookups) : primaryLookups[i].outcome = "404"

\* C1: when the loop takes an address whose provenance record was written at
\* most one hour ago, in a run without --force (and not a dry run), that step
\* skips the address: shouldSkip is true, no metadata lookup and no explorer
\* call is issued for it and no archive file changes.
C1_IdempotentSkip ==
  [][ (/\ stage = "PENDING"
       /\ idx < Len(AddressList)
       /\ idx' = idx + 1
       /\ ~opts.force
       /\ ~opts.dryRun
       /\ HasRecord(prov[AddressList[idx + 1]])
       /\ clock - prov[AddressList[idx + 1]].lastUpdatedAt <= 1)
      => (/\ check'.shouldSkip
          /\ outcome'[AddressList[idx + 1]] = "skipped"
          /\ stage' = "PENDING"
          /\ primaryLookups' = <<>>
          /\ explorerCalls' = 0
          /\ prov' = prov
          /\ metaFile' = metaFile) ]_vars

\* C1 witness: an address fetched one hour earlier has been skipped
C1_Witness ==
  \E a \in Addresses :
    /\ outcome[a] = "skipped"
    /\ ~opts.force
    /\ HasRecord(prov[a])
    /\ ~prov[a].orphaned
    /\ clock - prov[a].lastUpdatedAt = 1

\* C2 (as claimed): a contract whose primary lookups all answered 404 and that
\* ended FAILED had the explorer client invoked exactly once, whatever the
\* chain configuration.
C2_ExplorerOnceAlways ==
  (CurFinished /\ Primary404Everywhere /\ outcome[Cur] = "failed")
    => explorerCalls = 1

\* C2 (amended): after 404 on every primary lookup the explorer client is
\* invoked at most once, and a contract that ends FAILED had it invoked exactly
\* once when explorerApiBase is configured and not at all when it is not.
C2_ExplorerOnceIfConfigured ==
  (idx >= 1 /\ Primary404Everywhere)
    => /\ explorerCalls <= 1
       /\ (CurFinished /\ outcome[Cur] = "failed")
            => explorerCalls = (IF explorerApiBase THEN 1 ELSE 0)

\* C2 witness: configured explorer, 404 everywhere, one explorer call, FAILED
C2_Witness ==
  /\ CurFinished
  /\ Primary404Everywhere
  /\ explorerApiBase
  /\ outcome[Cur] = "failed"
  /\ explorerCalls = 1

\* C3: a contract whose exact-match lookup at the first mirror succeeded ends
\* successful, with metadata.json of match type 'full' and a provenance record
\* whose sourcesUsed is exactly ['sourcify'].
C3_ExactMatchPersisted ==
  (/\ CurFinished
   /\ Len(primaryLookups) = 1
   /\ primaryLookups[1].outcome = "ok")
    => /\ outcome[Cur] = "successful"
       /\ metaFile[Cur].sourcifyMatchType = "full"
       /\ HasRecord(prov[Cur])
       /\ prov[Cur].sourcesUsed = <<"sourcify">>

\* a run that is not a dry run is under way
RealRunActive == stage # "IDLE" /\ ~opts.dryRun

\* C4: if real (non-dry) runs keep happening, then once the primary source
\* answers every lookup successfully every input address eventually has a
\* persisted provenance record.
C4_Converges == ([]<>RealRunActive) => (primaryHealthy ~> AllPersisted)

\* C5 (as claimed): one call of request issues at most maxRetries HTTP
\* attempts.
C5_AtMostMaxRetriesAttempts == hRequests <= MaxRetries(httpConfig)

\* C5 (amended): one call of request issues at most maxRetries + 1 HTTP
\* attempts, the first one and maxRetries retries, whatever the failures.
C5_AtMostMaxRetriesPlusOne == hRequests <= MaxRetries(httpConfig) + 1

\* C5 witness: a call that failed on every attempt and used them all
C5_Witness ==
  /\ hStage = "done"
  /\ hResult.kind = "threw"
  /\ hRequests = MaxRetries(httpConfig) + 1

\* the failures the retry policy names: no response, 5xx, 429
RetryableFailure(e) ==
  \/ e.kind = "network"
  \/ e.kind = "response" /\ e.status >= 500 /\ e.status <= 599
  \/ e.kind = "response" /\ e.status = 429

\* a step of the retry loop whose attempt failed
AttemptFailed ==
  /\ hStage = "attempting"
  /\ hRequests' = hRequests + 1
  /\ hResult'.kind # "returned"

\* C6: a failed attempt is followed by a sleep and another attempt if and only
\* if attempts remain (attempt < maxRetries) and the failure is a network
\* error, a 5xx or a 429; otherwise the call ends at once, with no sleep, and
\* throws that attempt's error.
C6_RetryIffRetryable ==
  [][ AttemptFailed =>
        /\ (hStage' = "attempting")
             <=> (hAttempt < MaxRetries(httpConfig) /\ RetryableFailure(hAnswer'))
        /\ hStage' = "attempting"
             => /\ hAttempt' = hAttempt + 1
                /\ Len(hDelays') = Len(hDelays) + 1
        /\ hStage' # "attempting"
             => /\ hStage' = "done"
                /\ hResult' = [kind |-> "threw", payload |-> "none",
                               error |-> hAnswer']
                /\ hDelays' = hDelays
                /\ hAttempt' = hAttempt ]_vars

\* C6 witness: a retried failure followed by a 404 that ended the call with
\* attempts left
C6_Witness ==
  /\ hStage = "done"
  /\ hResult.kind = "threw"
  /\ hResult.error.status = 404
  /\ Len(hDelays) = 1
  /\ hRequests = 2
  /\ hAttempt < MaxRetries(httpConfig)

Only5xx ==
  \A i \in 1..Len(hDelays) : hDelays[i].status >= 500 /\ hDelays[i].status <= 599

\* C7: no sleep of a call exceeds maxRetryDelay, and while every failure of
\* the call is a 5xx each sleep is at least as long as the one before it
\* (for every drawn jitter, zero included).
C7_BackoffMonotoneCapped ==
  /\ \A i \in 1..Len(hDelays) : hDelays[i].delay <= MaxRetryDelay(httpConfig)
  /\ Only5xx
       => \A i \in 1..(Len(hDelays) - 1) : hDelays[i].delay <= hDelays[i + 1].delay

\* C7 witness: 5xx on every attempt, the second sleep at the cap, the first
\* below it
C7_Witness ==
  /\ Len(hDelays) >= 2
  /\ Only5xx
  /\ hDelays[1].delay < hDelays[2].delay
  /\ hDelays[2].delay = MaxRetryDelay(httpConfig)

\* the call in progress is a GET without forced refresh that follows a GET of
\* the same URL answered 200 with an ETag, whose cache entry is still in its
\* validity window
SecondGetOf(u) ==
  /\ hPrev.kind = "get200"
  /\ hPrev.url = u
  /\ cache[u].kind = "entry"
  /\ clock - cache[u].timestamp <= CacheValidityHours

\* C8 (as claimed): when the second GET was answered "not modified", the two
\* GETs issued exactly one network request in total.
C8_OneRequestInTotal ==
  (/\ hStage = "done"
   /\ hReq.method = "GET"
   /\ ~hReq.ignoreCache
   /\ ~hReq.ignoreEtag
   /\ SecondGetOf(hReq.url)
   /\ hAnswer.status = 304
   /\ hDelays = <<>>)
    => hPrev.requests + hRequests = 1

\* C8 (amended): the second GET carries If-None-Match with the cached ETag and
\* goes to the network: the "not modified" answer to its first attempt ends
\* the call after exactly one request, so the two GETs issue two network
\* requests when the first GET needed one.
C8_SecondGetRevalidates ==
  [][ /\ (/\ hStage = "idle"
          /\ hStage' = "attempting"
          /\ hReq'.method = "GET"
          /\ ~hReq'.ignoreCache
          /\ ~hReq'.ignoreEtag
          /\ SecondGetOf(hReq'.url))
         => /\ hReq'.ifNoneMatch = cache[hReq'.url].etag
            /\ hReq'.ifNoneMatch # "none"
      /\ (/\ hStage = "attempting"
          /\ hReq.method = "GET"
          /\ SecondGetOf(hReq.url)
          /\ hRequests = 0
          /\ hRequests' = 1
          /\ hAnswer'.status = 304)
         => /\ hStage' = "done"
            /\ hPrev.requests = 1 => hPrev.requests + hRequests' = 2 ]_vars

\* C8 witness: a second GET answered 304 on its only request, after a first
\* GET that took one request
C8_Witness ==
  /\ hStage = "done"
  /\ hReq.method = "GET"
  /\ SecondGetOf(hReq.url)
  /\ hPrev.requests = 1
  /\ hReq.ifNoneMatch = "e1"
  /\ hAnswer.status = 304
  /\ hRequests = 1

\* C9: a GET that found a valid cached entry with an ETag carries
\* If-None-Match, and when it is answered 304 (the entry still valid) the call
\* returns the cached payload: it does not throw.
C9_NotModifiedReturnsCached ==
  (/\ hStage = "done"
   /\ hReq.method = "GET"
   /\ hReq.ifNoneMatch # "none"
   /\ hAnswer.status = 304
   /\ LoadFromCache(cache[hReq.url], clock).kind = "entry")
    => /\ hReq.ifNoneMatch = cache[hReq.url].etag
       /\ hResult.kind = "returned"
       /\ hResult.payload = cache[hReq.url].data

\* index of the first lookup answered "ok", or the number of pairs if none is
FirstOk(resp) ==
  IF \E i \in DOMAIN resp : resp[i] = "ok"
    THEN CHOOSE i \in DOMAIN resp :
           resp[i] = "ok" /\ \A k \in 1..(i - 1) : resp[k] # "ok"
    ELSE Len(resp)

\* C10: for a checksummed address, the lookups of one fetchMetadata call are
\* (full, mirror 1..N) then (partial, mirror 1..N), cut right after the first
\* successful one: nothing is looked up after a success, no failure (404 or
\* other) ends the scan early, and a partial match is returned only when the
\* full lookup failed at every mirror.
C10_ScanOrder ==
  (mCall.made /\ mCall.addrValid) =>
    LET n == Len(mCall.baseUrls)
        L == mResult.lookups
    IN /\ Len(L) = FirstOk(mCall.resp)
       /\ \A i \in 1..Len(L) :
            /\ L[i].matchType = (IF i <= n THEN "full" ELSE "partial")
            /\ L[i].baseUrl = mCall.baseUrls[IF i <= n THEN i ELSE i - n]
            /\ L[i].outcome = mCall.resp[i]
       /\ mResult.ok <=> (\E i \in DOMAIN mCall.resp : mCall.resp[i] = "ok")
       /\ mResult.ok
            => /\ mResult.matchType = L[Len(L)].matchType
               /\ mResult.sourceUrl = L[Len(L)].baseUrl
               /\ L[Len(L)].outcome = "ok"
       /\ (mResult.ok /\ mResult.matchType = "partial")
            => \A i \in 1..n : mCall.resp[i] # "ok"

\* C10 witness: two mirrors, a non-404 failure and a 404 on the full lookups,
\* then a partial match at the first mirror
C10_Witness ==
  /\ mCall.made
  /\ mCall.addrValid
  /\ Len(mCall.baseUrls) = 2
  /\ mResult.ok
  /\ mResult.matchType = "partial"
  /\ Len(mResult.lookups) = 3
  /\ mResult.lookups[1].outcome = "error"
  /\ mResult.lookups[2].outcome = "404"

\* index of the last lookup of the scan that failed with something other than
\* a 404 (0 if there is none)
LastNon404(resp) ==
  IF \E i \in DOMAIN resp : resp[i] \in {"error", "network"}
    THEN CHOOSE i \in DOMAIN resp :
           /\ resp[i] \in {"error", "network"}
           /\ \A k \in (i + 1)..Len(resp) : resp[k] \notin {"error", "network"}
    ELSE 0

\* C11: when fetchMetadata fails after every pair failed and at least one
\* failure was not a 404, the lastError carried by the raised error is the most
\* recent failure that was not a 404 (a later 404 does not replace it).
C11_LastErrorIsLastNon404 ==
  (/\ mCall.made
   /\ mCall.addrValid
   /\ ~mResult.ok
   /\ LastNon404(mCall.resp) # 0)
    => /\ mResult.lastError = mCall.resp[LastNon404(mCall.resp)]
       /\ mResult.lastError # "404"

\* a primary lookup of the contract being processed succeeded
PrimarySucceeded ==
  \E i \in 1..Len(primaryLookups) : primaryLookups[i].outcome = "ok"

\* every pair of the scan was looked up and none succeeded
PrimaryExhausted ==
  /\ Len(primaryLookups) = 2 * Len(DefaultBaseUrls)
  /\ ~PrimarySucceeded

\* C12: the explorer client is called (or about to be called) for a contract
\* only when every match-type/mirror pair was looked up and failed; a contract
\* whose primary lookup succeeded never has it called, whatever follows
\* (dropped source files, verification, schema validation, persistence).
C12_ExplorerOnlyAfterPrimaryExhausted ==
  /\ (explorerCalls >= 1 \/ stage = "FETCHING_SECONDARY") => PrimaryExhausted
  /\ PrimarySucceeded => (explorerCalls = 0 /\ stage # "FETCHING_SECONDARY")
  /\ explorerCalls >= 1 => contractData.dataSource # "sourcify"

\* C12 witness: a primary match with dropped source files and verification
\* requested ended FAILED without any explorer call, explorer configured
C12_Witness ==
  /\ CurFinished
  /\ explorerApiBase
  /\ PrimarySucceeded
  /\ contractData.sources = "partial"
  /\ opts.verifyBytecode
  /\ outcome[Cur] = "failed"
  /\ explorerCalls = 0

\* the loop takes address a and calls checkProvenance on a readable archive
ChecksProvenance(a) ==
  /\ stage = "PENDING"
  /\ idx < Len(AddressList)
  /\ a = AddressList[idx + 1]
  /\ idx' = idx + 1
  /\ ~opts.dryRun
  /\ prov[a].kind # "corrupt"

\* C13: checkProvenance returns exists iff there is a record, isStale iff
\* there is none or now - lastUpdatedAt exceeds 24 hours, and
\* shouldSkip = exists && !isStale && !force.
C13_ShouldSkipFormula ==
  [][ \A a \in Addresses :
        ChecksProvenance(a) =>
          /\ check'.exists = HasRecord(prov[a])
          /\ check'.isStale =
               (~HasRecord(prov[a])
                  \/ clock - prov[a].lastUpdatedAt > StaleThresholdHours)
          /\ check'.shouldSkip =
               (check'.exists /\ ~check'.isStale /\ ~opts.force)
          /\ ~HasRecord(prov[a]) => (check'.isStale /\ ~check'.shouldSkip) ]_vars

\* C13 witness: a record exactly 24 hours old was checked under --force: not
\* stale, not skipped
C13_Witness ==
  /\ idx >= 1
  /\ opts.force
  /\ check.exists
  /\ ~check.isStale
  /\ ~check.shouldSkip
  /\ clock - check.provenance.lastUpdatedAt = StaleThresholdHours

\* C14: once a contract has a provenance record, no step (re-fetch through any
\* source, forced or after staleness, markOrphaned) changes its firstSeenAt or
\* removes the record.
C14_FirstSeenAtPreserved ==
  [][ \A a \in Addresses :
        HasRecord(prov[a]) =>
          /\ HasRecord(prov'[a])
          /\ prov'[a].firstSeenAt = prov[a].firstSeenAt ]_vars

\* C14 witness: a contract first fetched earlier has just been fetched again
C14_Witness ==
  /\ CurFinished
  /\ outcome[Cur] = "successful"
  /\ check.exists
  /\ HasRecord(prov[Cur])
  /\ prov[Cur].lastUpdatedAt = clock
  /\ prov[Cur].firstSeenAt < clock
  /\ check.provenance.firstSeenAt = prov[Cur].firstSeenAt

\* C16: every provenance record of the archive has firstSeenAt <= lastUpdatedAt.
C16_FirstSeenBeforeLastUpdated ==
  \A a \in Addresses :
    HasRecord(prov[a]) => prov[a].firstSeenAt <= prov[a].lastUpdatedAt

\* C16 witness: a record re-fetched after its first fetch and then marked
\* orphaned later still
C16_Witness ==
  \E a \in Addresses :
    /\ HasRecord(prov[a])
    /\ prov[a].orphaned
    /\ prov[a].firstSeenAt < prov[a].lastUpdatedAt
    /\ prov[a].lastUpdatedAt = clock

\* the verification of the contract just processed could not be completed
VerificationIncomplete ==
  /\ contractData.hashes.kind = "record"
  /\ \/ contractData.hashes.onChainDeployedHash = "null"
     \/ contractData.hashes.metadataDeployedHash = "null"

\* C17: with --verify-bytecode, a contract whose fetch succeeded with metadata
\* that passes the schema check is persisted and counted successful even when
\* the verification could not be completed.
C17_VerificationBestEffort ==
  (/\ CurFinished
   /\ opts.verifyBytecode
   /\ contractData.kind = "data"
   /\ ValidateMetadata(contractData.metadata)
   /\ VerificationIncomplete)
    => /\ outcome[Cur] = "successful"
       /\ prov[Cur] = contractData.provenance

SeqToSet(q) == {q[i] : i \in 1..Len(q)}

\* C15: when a fetch of a contract that already has a provenance record is
\* persisted, the new sourcesUsed is the union of the previous sourcesUsed and
\* the source this fetch used.
C15_SourcesUsedUnion ==
  [][ (/\ stage = "PERSISTING"
       /\ HasRecord(prov[Cur])
       /\ outcome'[Cur] = "successful")
      => SeqToSet(prov'[Cur].sourcesUsed)
           = SeqToSet(prov[Cur].sourcesUsed) \cup {contractData.dataSource} ]_vars

\* the hex digits of a bytecode that has some ("" if it has none)
Digits(b) == IF b.kind = "hex" THEN b.digits ELSE ""

\* the on-chain bytecode of the call, as hex digits ("" if the chain has no
\* RPC, the call failed or the result is null, empty or '0x')
OnChainDigits ==
  IF vCall.rpcUrl /\ vCall.rpc.kind = "result" THEN Digits(vCall.rpc.code) ELSE ""

\* C18: verifyContract reports hashMatch (and verified) true if and only if
\* the chain and the metadata both have a non-empty bytecode and the two are
\* the same bytes; a null, empty or '0x' bytecode yields no hash, and an empty
\* eth_getCode result gives no match, the on-chain warning and no error.
C18_MatchIffBothHashesEqual ==
  vCall.made =>
    /\ vResult.verified = vResult.hashMatch
    /\ vResult.hashMatch
         <=> (OnChainDigits # "" /\ OnChainDigits = Digits(vCall.metaCode))
    /\ vResult.hashMatch
         <=> /\ vResult.onChainHash.kind = "hash"
             /\ vResult.metadataHash.kind = "hash"
             /\ vResult.onChainHash.digest = vResult.metadataHash.digest
    /\ OnChainDigits = "" => vResult.onChainHash.kind = "null"
    /\ Digits(vCall.metaCode) = "" => vResult.metadataHash.kind = "null"
    /\ (vCall.rpcUrl /\ vCall.rpc.kind = "result" /\ OnChainDigits = "")
         => /\ ~vResult.hashMatch
            /\ "no bytecode on-chain" \in vResult.warnings
            /\ vResult.errors = {}

\* C18 witness: a match between '0xaa' on chain and 'aa' in the metadata
C18_Witness ==
  /\ vCall.made
  /\ vResult.hashMatch
  /\ vCall.rpc.code.prefix
  /\ ~vCall.metaCode.prefix

\* the paths of the mismatched entries of the last result
MismatchedPaths == {m.file : m \in kResult.mismatchedFiles}

\* C19: verifyChecksums lists in missing the manifest paths with no file, in
\* extra the files with no manifest entry, in mismatched the paths in both
\* whose digest differs (with the expected and the actual digest), and valid
\* is true iff missing and mismatched are empty, whatever extra holds.
C19_VerifyChecksumsPartition ==
  kResult.made =>
    /\ kResult.missingFiles =
         {p \in Paths : kManifest[p] # "undefined" /\ kDir[p] = "absent"}
    /\ kResult.extraFiles =
         {p \in Paths : kManifest[p] = "undefined" /\ kDir[p] # "absent"}
    /\ MismatchedPaths =
         {p \in Paths : /\ kManifest[p] # "undefined"
                        /\ kDir[p] # "absent"
                        /\ kManifest[p] # HashFile(kDir[p])}
    /\ \A m \in kResult.mismatchedFiles :
         /\ m.expected = kManifest[m.file]
         /\ m.actual = HashFile(kDir[m.file])
    /\ kResult.valid
         <=> (kResult.missingFiles = {} /\ kResult.mismatchedFiles = {})

\* C19 witness: a directory with an extra file and nothing else wrong is valid
C19_Witness ==
  /\ kResult.made
  /\ kResult.extraFiles # {}
  /\ kResult.valid
  /\ \E p \in Paths : kManifest[p] # "undefined"

\* exactly the file at p changed content since the manifest was generated
OnlyChanged(p) ==
  /\ kBase[p] # "absent"
  /\ kDir[p] # "absent"
  /\ kDir[p] # kBase[p]
  /\ \A q \in Paths \ {p} : kDir[q] = kBase[q]

\* C20: verifying a directory against the manifest generated from it reports
\* no missing and no mismatched file while the directory is unmodified, and
\* exactly the changed file as mismatched (nothing missing) after the content
\* of one file changed.
C20_ChecksumRoundTrip ==
  kResult.made =>
    /\ kDir = kBase
         => /\ kResult.missingFiles = {}
            /\ kResult.mismatchedFiles = {}
            /\ kResult.valid
    /\ \A p \in Paths :
         OnlyChanged(p)
           => /\ MismatchedPaths = {p}
              /\ kResult.missingFiles = {}

\* C20 witness: one file of a three-file directory changed, and is reported
C20_Witness ==
  /\ kResult.made
  /\ \A q \in Paths : kBase[q] # "absent"
  /\ OnlyChanged("abi.json")
  /\ MismatchedPaths = {"abi.json"}

\* the address the next step of the loop works on: the one the loop is about
\* to take, or the one being fetched or persisted
Processing ==
  IF stage = "PENDING" THEN AddressList[Min(idx + 1, Len(AddressList))] ELSE Cur

\* the archive files of contract a
Files(a) == <<prov[a], metaFile[a], hashFile[a]>>

\* C21: in a run without --strict, a step changes the outcome and the archive
\* files of the contract it works on only; a step that records a contract as
\* failed leaves the loop going (no exit code set), and the run ends only
\* after every selected address was processed.
C21_FailureIsolated ==
  [][ (stage # "IDLE" /\ ~opts.strict) =>
        /\ stage' # "IDLE" =>
             \A a \in Addresses \ {Processing} :
               /\ outcome'[a] = outcome[a]
               /\ Files(a)' = Files(a)
        /\ totalFailed' = totalFailed + 1 =>
             /\ stage' = "PENDING"
             /\ idx' <= opts.selected
             /\ outcome'[Processing] = "failed"
             /\ exitCode' = exitCode
        /\ stage' = "IDLE" =>
             /\ idx = opts.selected
             /\ \A i \in 1..opts.selected : outcome[AddressList[i]] # "pending"
             /\ \A a \in Addresses : Files(a)' = Files(a) ]_vars

\* C21 witness: the first address failed and the second one was fetched and
\* persisted in the same run
C21_Witness ==
  /\ stage = "PENDING"
  /\ ~opts.strict
  /\ idx = 2
  /\ outcome[AddressList[1]] = "failed"
  /\ outcome[AddressList[2]] = "successful"
  /\ HasRecord(prov[AddressList[2]])
  /\ ~HasRecord(prov[AddressList[1]])

\* C22: in a run with --strict, the step that records the first failed
\* contract ends the loop: from then on the only step of the run is the exit
\* with code 1, which checks, fetches and persists nothing.
C22_StrictAborts ==
  [][ /\ (stage # "IDLE" /\ opts.strict /\ totalFailed' = totalFailed + 1)
           => stage' = "ABORTING"
      /\ (stage # "IDLE" /\ opts.strict /\ totalFailed >= 1)
           => /\ stage = "ABORTING"
              /\ totalFailed = 1
      /\ stage = "ABORTING"
           => /\ stage' = "IDLE"
              /\ exitCode' = "1"
              /\ idx' = 0
              /\ \A a \in Addresses : Files(a)' = Files(a) ]_vars

\* C22 witness: a strict run over two addresses stopped at the first one
C22_Witness ==
  /\ stage = "ABORTING"
  /\ opts.strict
  /\ opts.selected = 2
  /\ idx = 1
  /\ outcome[AddressList[1]] = "failed"
  /\ outcome[AddressList[2]] = "pending"

\* the run is at the end of its loop
LoopDone == stage = "PENDING" /\ idx = opts.selected

\* C23: a run that reaches the end of its loop has counted every selected
\* address in totalProcessed (skipped ones included) and exits with code 1 iff
\* 2 * totalFailed > totalProcessed, else with code 0: a rate of exactly one
\* half and a run over no address exit with 0.
C23_FailureRateExit ==
  [][ (LoopDone /\ stage' = "IDLE") =>
        /\ totalProcessed = opts.selected
        /\ totalProcessed =
             Cardinality({a \in Addresses : outcome[a] # "pending"})
        /\ exitCode' \in {"0", "1"}
        /\ exitCode' = "1" <=> 2 * totalFailed > totalProcessed
        /\ 2 * totalFailed = totalProcessed => exitCode' = "0" ]_vars

\* C23 witness: a run over two addresses, one skipped and one failed (a rate
\* of exactly one half), is about to exit
C23_Witness ==
  /\ LoopDone
  /\ ~opts.strict
  /\ totalProcessed = 2
  /\ totalFailed = 1
  /\ \E a \in Addresses : outcome[a] = "skipped"

\* C24: in a dry run, taking an address writes no archive file and no cache
\* entry, and still reads its provenance record (the staleness check).
C24_DryRunStillChecksStaleness ==
  [][ (stage = "PENDING" /\ opts.dryRun /\ idx' = idx + 1) =>
        /\ \A a \in Addresses : Files(a)' = Files(a)
        /\ cache' = cache
        /\ check'.exists = HasRecord(prov[AddressList[idx + 1]]) ]_vars

\* C27: markOrphaned on a contract with a provenance record sets orphaned to
\* true and changes no other field and no other file; without a record it
\* changes nothing.
C27_MarkOrphanedOnlySetsFlag ==
  [][ \A a \in Addresses :
        (stage = "IDLE" /\ stage' = "IDLE" /\ prov'[a] # prov[a]) =>
          /\ HasRecord(prov[a])
          /\ prov'[a] = [prov[a] EXCEPT !.orphaned = TRUE]
          /\ metaFile' = metaFile
          /\ hashFile' = hashFile ]_vars

\* C28: every metadata.json, provenance.json and bytecode/hashes.json written
\* to the archive by the fetch and verify commands satisfies its schema; the
\* hash fields of hashes.json are strings.
C28_ArchiveFilesValid ==
  \A a \in Addresses :
    /\ metaFile[a].kind # "absent" => ValidateMetadata(metaFile[a])
    /\ prov[a].kind = "record" => ValidateProvenance(prov[a])
    /\ hashFile[a].kind = "record" =>
         /\ ValidateHashes(hashFile[a])
         /\ hashFile[a].onChainDeployedHash = "string"
         /\ hashFile[a].metadataDeployedHash = "string"

\* the manifest paths of the call whose fetch succeeded
Fetched == {p \in SourceFiles : sFiles[p].fetch = "ok"}

\* C25: fetchAllSources never throws, returns only when no fetch of the call
\* is still pending, and its result maps exactly the manifest paths whose
\* fetch succeeded, each to the content that fetch returned.
C25_AllSettledPartialResult ==
  /\ sResult.kind # "threw"
  /\ sResult.kind = "returned" =>
       /\ \A p \in SourceFiles : sFiles[p].promise # "pending"
       /\ {p \in SourceFiles : sResult.sources[p] # "undefined"} = Fetched
       /\ \A p \in Fetched : sResult.sources[p] = sFiles[p].content

\* C25 witness: three fetches, the first and the last of which failed, have
\* all ended and the call returned the one file fetched
C25_Witness ==
  /\ sResult.kind = "returned"
  /\ \A p \in SourceFiles : sFiles[p].promise = "fulfilled"
  /\ Fetched = {"B.sol"}
  /\ sResult.sources["B.sol"] = "c2"

\* C26: for a JSON document with a sources map, for the same document inside
\* one extra pair of braces and for a flat source string,
\* normalizeExplorerResponse yields one sources entry per source file of the
\* response (for the flat string, one entry named after the contract).
C26_OneEntryPerSourceFile ==
  (/\ xCall.made
   /\ ~xResult.threw
   /\ xCall.text.wraps <= 1
   /\ xCall.text.kind = "doc" => xCall.text.keyed)
    => xResult.sources =
         IF xCall.text.kind = "flat"
           THEN SingleFile
           ELSE {FileEntry(f) : f \in xCall.text.files}

\* the cache file of url holds an entry older than the validity window
Expired(url) ==
  /\ cache[url].kind = "entry"
  /\ clock - cache[url].timestamp > CacheValidityHours

\* C29: a GET that starts while the entry of its URL is older than 24 hours
\* sends no If-None-Match header, and a GET that returns while the entry is
\* older than 24 hours returns the body of the 200 answer it received, not
\* the entry's payload.
C29_ExpiredEntryIsAbsent ==
  [][ /\ (/\ hStage = "idle"
          /\ hStage' = "attempting"
          /\ hReq'.method = "GET"
          /\ Expired(hReq'.url))
         => hReq'.ifNoneMatch = "none"
      /\ (/\ hStage = "attempting"
          /\ hReq.method = "GET"
          /\ Expired(hReq.url)
          /\ hResult'.kind = "returned")
         => /\ hAnswer'.status = 200
            /\ hResult'.payload = hAnswer'.body ]_vars

\* C29 witness: a default GET is under way for a URL whose entry carries an
\* ETag and is older than 24 hours, and it went out without If-None-Match
C29_Witness ==
  /\ hStage = "attempting"
  /\ hReq.method = "GET"
  /\ ~hReq.ignoreCache
  /\ ~hReq.ignoreEtag
  /\ Expired(hReq.url)
  /\ cache[hReq.url].etag # "none"
  /\ hReq.ifNoneMatch = "none"

Sleeps == Len(hDelays') = Len(hDelays) + 1

\* C31: the sleep after a 429 with a retry-after of s seconds is
\* min(s * 1000, maxRetryDelay) whatever the attempt index; the sleep after a
\* 429 without retry-after is the exponential backoff of the current attempt
\* index; neither exceeds maxRetryDelay.
C31_RetryAfterOrBackoff ==
  [][ (Sleeps /\ hAnswer'.status = 429)
      => LET delay == hDelays'[Len(hDelays')].delay
         IN /\ delay <= MaxRetryDelay(httpConfig)
            /\ hAnswer'.hasRetryAfter
                 => delay = Min(hAnswer'.retryAfter * 1000,
                                MaxRetryDelay(httpConfig))
            /\ ~hAnswer'.hasRetryAfter
                 => \E j \in RandomDraws :
                      delay = CalculateRetryDelay(httpConfig, hAttempt, j) ]_vars

\* C32: a call of request makes at most maxRetries + 1 attempts and then
\* ends: it has returned the payload of its last answer or thrown the error
\* of the last attempt it made; a call that is under way always ends, also
\* when every attempt fails with a retryable error.
C32_RequestTerminates ==
  /\ [](hRequests <= MaxRetries(httpConfig) + 1)
  /\ [](hStage = "done"
          => \/ /\ hResult.kind = "returned"
                /\ Resolves(hAnswer)
                /\ hResult.payload = hAnswer.body
             \/ /\ hResult.kind = "threw"
                /\ ~Resolves(hAnswer)
                /\ hResult.error = hAnswer)
  /\ (hStage = "attempting") ~> (hStage = "done")

\* C32 witness: every attempt failed with a retryable error, the last one
\* differently from the first, and the call threw the last error
C32_Witness ==
  /\ hStage = "done"
  /\ hRequests = MaxRetries(httpConfig) + 1
  /\ Len(hDelays) = MaxRetries(httpConfig)
  /\ hDelays[1].status = 500
  /\ hAnswer.status = 429
  /\ hResult.kind = "threw"
  /\ hResult.error = hAnswer

\* C33: a step changes the cache only when it is a GET answered 200, and then
\* only the entry of the GET's URL, which becomes that response's payload and
\* ETag (or is left torn by a failed write); a failed attempt, a 304 and a
\* POST change no entry, and a GET answered 200 returns the response's
\* payload whatever the write of the cache file did.
C33_OnlyGet200WritesCache ==
  [][ /\ cache' # cache
         => /\ hStage = "attempting"
            /\ hReq.method = "GET"
            /\ hAnswer'.status = 200
            /\ \A u \in Urls \ {hReq.url} : cache'[u] = cache[u]
            /\ cache'[hReq.url] \in
                 {Entry(clock, hAnswer'.etag, hAnswer'.body), TornEntry}
      /\ (hStage = "attempting" /\ hRequests' = hRequests + 1
            /\ hAnswer'.status = 200)
         => /\ hResult'.kind = "returned"
            /\ hResult'.payload = hAnswer'.body ]_vars

\* C33 witness: a GET answered 200 returned the payload although the write of
\* its cache file failed and left the older entry of the URL in place
C33_Witness ==
  /\ hStage = "done"
  /\ hReq.method = "GET"
  /\ hAnswer.status = 200
  /\ hAnswer.body = "b2"
  /\ hResult.kind = "returned"
  /\ hResult.payload = "b2"
  /\ cache[hReq.url].kind = "entry"
  /\ cache[hReq.url].data = "b1"
  /\ cache[hReq.url].timestamp < clock

\* C34: in a persistContract call, whether it returns, throws or is killed,
\* provenance.json holds the record of this fetch only when the file of every
\* artifact the fetch hands over (metadata, ABI, sources, bytecode, hashes,
\* labels) has been written by this call.
C34_ProvenanceWrittenLast ==
  pDir["provenance"] = "new"
    => \A f \in pData.given : pDir[f] = "new"

\* C34 witness: a call on a directory an earlier fetch filled was killed after
\* it wrote metadata.json and before it wrote provenance.json, which is still
\* the earlier record
C34_Witness ==
  /\ pPos.state = "killed"
  /\ pDir["metadata"] = "new"
  /\ pDir["abi"] = "new"
  /\ "hashes" \in pData.given
  /\ pDir["hashes"] # "new"
  /\ pDir["provenance"] = "old"

\* C37: a persistContract call that throws, whichever validation or write made
\* it throw, leaves provenance.json as it was before the call: absent, or the
\* record of the earlier fetch.
C37_FailureKeepsProvenance ==
  pPos.state = "threw" => pDir["provenance"] \in {"absent", "old"}

Count(o) == Cardinality({a \in Addresses : outcome[a] = o})

\* the i-th address of the list has been taken by the loop and is done with
Finished(i) == i < idx \/ (i = idx /\ stage \in {"PENDING", "ABORTING"})

\* C38: in a fetch run without --dry-run every address the loop is done with
\* is skipped, successful or failed, the counters count these outcomes (no
\* address on two of them), totalSuccessful + totalFailed <= totalProcessed
\* throughout, and at the end of a non-strict run
\* totalProcessed = totalSuccessful + totalFailed + the number skipped.
C38_OutcomesPartition ==
  (stage # "IDLE" /\ ~opts.dryRun)
    => /\ totalSuccessful + totalFailed <= totalProcessed
       /\ totalProcessed = idx
       /\ totalSuccessful = Count("successful")
       /\ totalFailed = Count("failed")
       /\ \A i \in 1..idx :
            Finished(i)
              => outcome[AddressList[i]] \in {"skipped", "successful", "failed"}
       /\ (LoopDone /\ ~opts.strict)
            => totalProcessed =
                 totalSuccessful + totalFailed + Count("skipped")

\* C38 witness: a non-strict run at the end of its loop with one address
\* skipped and one failed
C38_Witness ==
  /\ LoopDone
  /\ ~opts.dryRun
  /\ ~opts.strict
  /\ totalProcessed = 2
  /\ Count("skipped") = 1
  /\ totalFailed = 1
  /\ totalSuccessful = 0

\* C36: an entry that removeContract archived stays in the registry, with its
\* alias and address and still archived, through every later addContract and
\* removeContract; no getContract and no default listContracts call returns
\* it, and no addContract that reuses its address (in any spelling) or its
\* alias succeeds.
C36_ArchivedStaysArchived ==
  [][ \A i \in DOMAIN registry.contracts :
        LET c == registry.contracts[i]
        IN c.archived
             => /\ i \in DOMAIN registry'.contracts
                /\ registry'.contracts[i].archived
                /\ registry'.contracts[i].alias = c.alias
                /\ registry'.contracts[i].address = c.address
                /\ rLast'.op \in {"getContract", "listContracts"}
                     => \A k \in DOMAIN rLast'.found :
                          /\ rLast'.found[k].alias # c.alias
                          /\ rLast'.found[k].address # c.address
                /\ (rLast'.op = "addContract" /\ ~rLast'.threw)
                     => /\ rLast'.arg.alias # c.alias
                        /\ ToLowerCase(rLast'.arg.address) # ToLowerCase(c.address)
                /\ (rLast'.op = "addContract"
                      /\ \/ rLast'.arg.alias = c.alias
                         \/ ToLowerCase(rLast'.arg.address) = ToLowerCase(c.address))
                     => rLast'.threw /\ registry' = registry ]_vars

\* C36 witness: after a removeContract archived the only entry, an addContract
\* that reused its alias for another account was rejected and the entry is
\* still there, archived
C36_Witness ==
  /\ Len(registry.contracts) = 1
  /\ registry.contracts[1].archived
  /\ registry.contracts[1].archivedAt > registry.createdAt
  /\ rLast.op = "addContract"
  /\ rLast.threw
  /\ rLast.arg.alias = registry.contracts[1].alias
  /\ IsValidChecksumAddress(rLast.arg.address)
  /\ rLast.arg.address.id # registry.contracts[1].address.id

\* C40: the entries of a registry have pairwise different addresses, compared
\* without regard to case, and pairwise different aliases, after every
\* initChain, addContract, removeContract and switchContractSet; and an
\* initChain on a chain that has a registry leaves the registry as it is.
C40_UniqueAddressesAndAliases ==
  \A i, j \in DOMAIN registry.contracts :
    i # j => /\ ToLowerCase(registry.contracts[i].address)
                  # ToLowerCase(registry.contracts[j].address)
             /\ registry.contracts[i].alias # registry.contracts[j].alias

\* C39: whenever validateChecksums runs on a contract directory the fetch
\* command has written, after the first fetch and after every later one, it
\* reports valid, with no missing and no mismatched file.
C39_ManifestValidAfterFetch ==
  (gFetches >= 1 /\ gResult.made)
    => /\ gResult.valid
       /\ gResult.missing = {}
       /\ gResult.mismatched = {}

====
